---- MODULE Spec2Model ----
(***************************************************************************)
(* A model of the Instagram media downloader: the strategy cascade of      *)
(* lib/instagram.ts (fetchPostMedia), the media enricher and resolution    *)
(* upgrade engine of lib/media.ts, the allowlist validator of              *)
(* lib/instagram-cdn.ts, the proxy / download / preview routes and the     *)
(* page component of app/page.tsx.                                         *)
(*                                                                         *)
(* Strings of the program that the code takes apart (URLs, host names)     *)
(* are sequences of fragments, so that concatenation, suffix tests and     *)
(* parsing are computed and not assumed.                                   *)
(***************************************************************************)
EXTENDS Integers, Sequences, FiniteSets, TLC

VARIABLES
    \* ---- fetchPostMedia (lib/instagram.ts) ----
    postUrl,      \* the caller's input
    pc,           \* position of the one fetchPostMedia call
    norm,         \* result of normalizePostUrl: [url, shortcode]
    inflight,     \* strategy requests issued and not yet answered
    reqLog,       \* every request issued by the cascade, in order
    got,          \* strategy number -> the response it received
    html,         \* the post page's text kept from strategy 2
    yield,        \* strategy number -> the items it produced
    items,        \* the items being enriched / returned
    winner,       \* the strategy whose items were taken (0: none)
    enrichCalls,  \* how many times enrichMediaItems was called
    outcome,      \* what fetchPostMedia did: pending / returned / thrown error
    \* ---- isAllowedProxyUrl (lib/instagram-cdn.ts) ----
    hostIn,       \* the value it was called with
    hostOut,      \* [done, result]: what it returned
    \* ---- the proxy and download routes (app/api) ----
    rKind,        \* which route handles the one request: none / proxy / download
    rPc,          \* position of the handler
    rUrl,         \* the url the client sent (<<>>: missing)
    rItems,       \* the items fetchPostMedia returned to the download route
    rIdx,         \* index of the item the ZIP loop is fetching
    rReqs,        \* the URLs the route itself has fetched
    rStatus,      \* HTTP status answered to the client (0: none yet)
    rArchive,     \* the ZIP archive: none / open / aborted / finalized
    \* ---- enrichMediaItems (lib/media.ts) ----
    ePc,          \* the call: idle / running / done
    eIn,          \* the items as they were passed in
    eItems,       \* the items, mutated in place
    eTask,        \* per item, the state of its async callback
    \* ---- the pure functions: the shape normalizer (lib/instagram.ts) and
    \* ---- the dimension sniffer (lib/media.ts), applied to one input
    shapePc,      \* idle / blob / node / buffer / source: what was passed in;
                  \* located / extracted / parsed / scanned
    shapeIn,      \* the parsed JSON value, or the description of the byte buffer, passed in
    shapeOut,     \* what the function returned
    \* ---- the preview route (app/api/preview) ----
    pvPc,         \* idle; direct (fetchPostMedia has another caller); request / awaiting / done
    pvBody,       \* the request body: invalid json / no url / url (its url is postUrl)
    pvStatus,     \* HTTP status answered (0: none yet)
    pvError,      \* the error text of the answer ("": none)
    \* ---- the page component (app/page.tsx, components/url-input.tsx) ----
    uiUrl,        \* state url: the text of the input field
    uiItems,      \* state items: [from, count], the fetch that set them and their number
    uiMeta,       \* state meta: the fetch that set it (0: null)
    uiStatus,     \* state status: idle / fetching / ready / error / downloading
    uiError,      \* state error ("": null)
    uiPending,    \* the handlers awaiting their response: [kind, id]
    uiIssued      \* how many requests the page has sent

cascadeVars == <<postUrl, pc, norm, inflight, reqLog, got, html, yield, items,
                 winner, enrichCalls, outcome>>
hostVars == <<hostIn, hostOut>>
routeVars == <<rKind, rPc, rUrl, rItems, rIdx, rReqs, rStatus, rArchive>>

enrichVars == <<ePc, eIn, eItems, eTask>>

shapeVars == <<shapePc, shapeIn, shapeOut>>
previewVars == <<pvPc, pvBody, pvStatus, pvError>>

pageVars == <<uiUrl, uiItems, uiMeta, uiStatus, uiError, uiPending, uiIssued>>

vars == <<cascadeVars, hostVars, routeVars, enrichVars, shapeVars, previewVars, pageVars>>

notCascade == <<hostVars, routeVars, enrichVars, shapeVars, previewVars, pageVars>>
notHost == <<cascadeVars, routeVars, enrichVars, shapeVars, previewVars, pageVars>>
notRoute == <<cascadeVars, hostVars, enrichVars, shapeVars, previewVars, pageVars>>
notEnrich == <<cascadeVars, hostVars, routeVars, shapeVars, previewVars, pageVars>>
notShape == <<cascadeVars, hostVars, routeVars, enrichVars, previewVars, pageVars>>
notPreview == <<cascadeVars, hostVars, routeVars, enrichVars, shapeVars, pageVars>>
notPage == <<cascadeVars, hostVars, routeVars, enrichVars, shapeVars, previewVars>>

Null == "null"              \* a null / undefined string or number
None == [ok |-> FALSE]      \* a null object

\* ---------------------------------------------------------------- bounds
MaxItems == 2     \* leaves of one media node
MaxBlobs == 2     \* JSON blobs embedded in one HTML page
MaxLabels == 3    \* labels of a host name given to isAllowedProxyUrl

\* ------------------------------------------------------- generic helpers
SeqsUpTo(S, n) == UNION {[1..k -> S] : k \in 0..n}

Range(s) == {s[i] : i \in 1..Len(s)}

\* String.prototype.includes / endsWith on sequences of fragments
EndsWith(s, suf) ==
    /\ Len(suf) <= Len(s)
    /\ SubSeq(s, Len(s) - Len(suf) + 1, Len(s)) = suf

Includes(s, sub) ==
    \E i \in 1..(Len(s) - Len(sub) + 1) : SubSeq(s, i, i + Len(sub) - 1) = sub

\* ------------------------------------------------------------- URL strings
\* A URL string is a sequence of fragments: a scheme ("https:"), "//", host
\* labels separated by ".", "/" and path segments, "?" and a query.  Labels and
\* segments are atomic; what the code asks about their characters is tabulated.
SpecialSchemes == {"https:", "http:", "ftp:"}   \* their host is lower-cased
Schemes == SpecialSchemes \cup {"git:"}
Space == " "

\* String.prototype.toLowerCase on one fragment
LowerFrag(f) ==
    CASE f = "INSTAGRAM" -> "instagram"
      [] f = "COM" -> "com"
      [] f = "WWW" -> "www"
      [] f = "FBCDN" -> "fbcdn"
      [] f = "NET" -> "net"
      [] OTHER -> f

toLowerCase(s) == [i \in 1..Len(s) |-> LowerFrag(s[i])]

\* String.prototype.trim
RECURSIVE TrimLeft(_)
TrimLeft(s) == IF s # <<>> /\ Head(s) = Space THEN TrimLeft(Tail(s)) ELSE s

RECURSIVE TrimRight(_)
TrimRight(s) ==
    IF s # <<>> /\ s[Len(s)] = Space THEN TrimRight(SubSeq(s, 1, Len(s) - 1)) ELSE s

trim(s) == TrimRight(TrimLeft(s))

\* index of the first fragment of s, at or after i, that is in set S (0: none)
RECURSIVE IndexFrom(_, _, _)
IndexFrom(s, S, i) ==
    IF i > Len(s) THEN 0 ELSE IF s[i] \in S THEN i ELSE IndexFrom(s, S, i + 1)

\* index of the last fragment of s equal to f (0: none)
RECURSIVE LastIndexOf(_, _, _)
LastIndexOf(s, f, i) ==
    IF i < 1 THEN 0 ELSE IF s[i] = f THEN i ELSE LastIndexOf(s, f, i - 1)

Digits == {"169", "254", "8080", "443"}

\* new URL(value): None when the constructor throws, else the parsed record.
\* scheme "//" [userinfo "@"] hostname [":" port] ["/" path] ["?" query]
ParseUrl(value) ==
    IF Len(value) < 3 \/ value[1] \notin Schemes \/ value[2] # "//" THEN None
    ELSE
      LET rest     == SubSeq(value, 3, Len(value))
          stop     == IndexFrom(rest, {"/", "?"}, 1)
          auth     == IF stop = 0 THEN rest ELSE SubSeq(rest, 1, stop - 1)
          tail     == IF stop = 0 THEN <<>> ELSE SubSeq(rest, stop, Len(rest))
          at       == LastIndexOf(auth, "@", Len(auth))
          hostport == SubSeq(auth, at + 1, Len(auth))
          colon    == IndexFrom(hostport, {":"}, 1)
          rawhost  == IF colon = 0 THEN hostport ELSE SubSeq(hostport, 1, colon - 1)
          port     == IF colon = 0 THEN <<>> ELSE SubSeq(hostport, colon + 1, Len(hostport))
          q        == IndexFrom(tail, {"?"}, 1)
          rawpath  == IF q = 0 THEN tail ELSE SubSeq(tail, 1, q - 1)
          query    == IF q = 0 THEN <<>> ELSE SubSeq(tail, q + 1, Len(tail))
      IN  IF \/ rawhost = <<>>
             \/ Space \in Range(rawhost)
             \/ \E i \in 1..Len(port) : port[i] \notin Digits
             \/ Len(port) > 1
          THEN None
          ELSE [ok |-> TRUE, protocol |-> value[1],
                hostname |-> IF value[1] \in SpecialSchemes THEN toLowerCase(rawhost)
                             ELSE rawhost,
                pathname |-> IF rawpath = <<>> THEN <<"/">> ELSE rawpath,
                search   |-> query]

\* ------------------------------------------------- lib/instagram.ts: input
\* what hostname.includes("instagram.com") sees of a label's characters
EndsInInstagram == {"instagram", "evilinstagram", "cdninstagram"}
StartsWithCom == {"com", "community"}

HostIncludesInstagramCom(h) ==
    \E i \in 1..(Len(h) - 2) :
        h[i] \in EndsInInstagram /\ h[i + 1] = "." /\ h[i + 2] \in StartsWithCom

\* the longest prefix of a path segment made of [A-Za-z0-9_-] ("" when none)
ShortcodePrefix(seg) ==
    CASE seg = "Cabc123" -> "Cabc123"
      [] seg = "x_Y-9" -> "x_Y-9"
      [] seg = "Cabc123.jpg" -> "Cabc123"
      [] seg \in {"p", "reel", "tv", "explore", "media", "embed"} -> seg
      [] OTHER -> ""

PostTypes == {"p", "reel", "tv"}

\* POST_PATH_RE = /\/(p|reel|tv)\/([A-Za-z0-9_-]+)/ : the first match in path
PostPathMatch(path) ==
    LET hits == {i \in 1..(Len(path) - 3) :
                    /\ path[i] = "/"
                    /\ path[i + 1] \in PostTypes
                    /\ path[i + 2] = "/"
                    /\ ShortcodePrefix(path[i + 3]) # ""}
    IN  IF hits = {} THEN None
        ELSE LET i == CHOOSE k \in hits : \A j \in hits : k <= j
             IN  [ok |-> TRUE, type |-> path[i + 1], shortcode |-> ShortcodePrefix(path[i + 3])]

Origin == <<"https:", "//", "www", ".", "instagram", ".", "com">>

\* mutant: the canonical URL keeps the scheme and host of the input
normalizePostUrl_KeepHost(input) ==
    LET parsed == ParseUrl(trim(input)) IN
    IF ~parsed.ok THEN [throw |-> "Invalid post URL."]
    ELSE IF ~HostIncludesInstagramCom(parsed.hostname)
    THEN [throw |-> "Post URL must be from instagram.com."]
    ELSE LET match == PostPathMatch(parsed.pathname) IN
         IF ~match.ok
         THEN [throw |-> "Post URL must include /p/, /reel/, or /tv/ and a shortcode."]
         ELSE [throw |-> Null,
               url |-> <<parsed.protocol, "//">> \o parsed.hostname
                          \o <<"/", match.type, "/", match.shortcode, "/">>,
               shortcode |-> match.shortcode]

normalizePostUrl(input) ==
    LET parsed == ParseUrl(trim(input)) IN
    IF ~parsed.ok THEN [throw |-> "Invalid post URL."]
    ELSE IF ~HostIncludesInstagramCom(parsed.hostname)
    THEN [throw |-> "Post URL must be from instagram.com."]
    ELSE LET match == PostPathMatch(parsed.pathname) IN
         IF ~match.ok
         THEN [throw |-> "Post URL must include /p/, /reel/, or /tv/ and a shortcode."]
         ELSE [throw |-> Null,
               url |-> Origin \o <<"/", match.type, "/", match.shortcode, "/">>,
               shortcode |-> match.shortcode]

\* the post URLs a caller supplies
PostInputs ==
    { <<"https:", "//", "www", ".", "instagram", ".", "com", "/", "p", "/", "Cabc123", "/">>,
      <<Space, "http:", "//", "instagram", ".", "com", "/", "reel", "/", "x_Y-9", "?", "igsh=1">>,
      <<"https:", "//", "evilinstagram", ".", "community", "/", "explore", "/", "tv", "/", "Cabc123.jpg">>,
      <<"https:", "//", "www", ".", "instagram", ".", "com", "/", "explore", "/">>,
      <<"https:", "//", "evil", ".", "net", "/", "p", "/", "Cabc123", "/">>,
      <<"www", ".", "instagram", ".", "com", "/", "p", "/", "Cabc123", "/">> }


\* ------------------------------------------- lib/instagram.ts: the network
\* What the upstream site can answer.  A response is a transport failure (the
\* fetch promise rejects: DNS, connection, abort on timeout) or an HTTP answer.
Statuses == {200, 401, 403, 500}
Ok(status) == status \in 200..299

\* A JSON blob is given by the leaves of the media node it holds (no node, or a
\* node without a usable asset: no leaves); "invalid" does not parse and
\* "falsy" parses to null.
LeafTypes == {"image", "video"}
Leaves == SeqsUpTo(LeafTypes, MaxItems)
JsonBodies ==
    {[json |-> "invalid", leaves |-> <<>>], [json |-> "falsy", leaves |-> <<>>]}
        \cup {[json |-> "blob", leaves |-> l] : l \in Leaves}

\* An HTML page: the blobs of its script blocks (each a media node of leaves
\* of one type) and its og: meta tags.
PageNodes == {l \in Leaves : \A i \in 1..Len(l) : l[i] = l[1]}
HtmlBodies == [blobs : SeqsUpTo(PageNodes, MaxBlobs), ogImage : BOOLEAN, ogVideo : BOOLEAN]
EmptyHtml == [blobs |-> <<>>, ogImage |-> FALSE, ogVideo |-> FALSE]

Transport == [kind |-> "transport"]

JsonResponses ==
    {Transport}
        \cup {[kind |-> "http", status |-> st, body |-> [json |-> "invalid", leaves |-> <<>>]] :
                st \in Statuses \ {200}}
        \cup {[kind |-> "http", status |-> 200, body |-> b] : b \in JsonBodies}

HtmlResponses ==
    {Transport}
        \cup {[kind |-> "http", status |-> st, body |-> EmptyHtml] : st \in Statuses \ {200}}
        \cup {[kind |-> "http", status |-> 200, body |-> b] : b \in HtmlBodies}

CdnHost == <<"scontent", ".", "cdninstagram", ".", "com">>
EvilHost == <<"evil", ".", "net">>
MediaUrl(i) == <<"https:", "//">> \o CdnHost \o <<"/", ToString(i)>>
OgImageUrl == <<"https:", "//">> \o CdnHost \o <<"/", "og.jpg">>
OgVideoUrl == <<"https:", "//">> \o CdnHost \o <<"/", "og.mp4">>
EvilUrl == <<"https:", "//">> \o EvilHost \o <<"/", "x.jpg">>

ContentTypes == {"image/jpeg", "text/html", ""}
IsImageType(ct) == ct = "image/jpeg"      \* contentType.startsWith("image/")

\* the answer to the legacy /media/?size=l hop; url is res.url ("" : not set)
LegacyResponses ==
    {Transport}
        \cup [kind : {"http"}, status : Statuses, ctype : ContentTypes,
              url : {<<>>, MediaUrl(1), EvilUrl}]

\* what a strategy saw of its response: "transport" or the status
Seen(resp) == IF resp.kind = "transport" THEN "transport" ELSE ToString(resp.status)

\* ---------------------------------------- lib/instagram.ts: HTTP helpers
\* tryFetchJson: the parsed JSON, or null on any failure
tryFetchJson(resp) ==
    IF resp.kind = "transport" THEN [json |-> "falsy", leaves |-> <<>>]
    ELSE IF ~Ok(resp.status) THEN [json |-> "falsy", leaves |-> <<>>]
    ELSE IF resp.body.json = "invalid" THEN [json |-> "falsy", leaves |-> <<>>]
    ELSE resp.body

\* fetchHtml: the page's text, or the error it throws
\* mutant: fetchHtml gives up silently, as tryFetchJson does, instead of throwing
fetchHtml_Swallow(resp) ==
    IF resp.kind = "transport"
    THEN [throw |-> "FetchError", message |-> "fetch failed", status |-> 0]
    ELSE IF ~Ok(resp.status) THEN [throw |-> Null, text |-> EmptyHtml]
    ELSE [throw |-> Null, text |-> resp.body]

\* mutant: every refused page fetch throws the same error, the status dropped
fetchHtml_Unclassified(resp) ==
    IF resp.kind = "transport" \/ ~Ok(resp.status)
    THEN [throw |-> "Error", message |-> "No media found for that post.", status |-> 0]
    ELSE [throw |-> Null, text |-> resp.body]

BlockedMessage == "Instagram temporarily blocked this request. Try again later."
FailedMessage == "Failed to fetch Instagram content."

fetchHtml(resp) ==
    IF resp.kind = "transport"
    THEN [throw |-> "FetchError", message |-> "fetch failed", status |-> 0]
    ELSE IF resp.status \in {401, 403}
    THEN [throw |-> "UpstreamError", message |-> BlockedMessage, status |-> resp.status]
    ELSE IF ~Ok(resp.status)
    THEN [throw |-> "UpstreamError", message |-> FailedMessage, status |-> resp.status]
    ELSE [throw |-> Null, text |-> resp.body]

\* ------------------------------------ lib/instagram.ts: items of a strategy
NewItem(type, url, thumb) ==
    [type |-> type, url |-> url, thumbnail |-> thumb, enriched |-> FALSE]

\* extractShortcodeMedia + extractFromMediaNode on a blob: one item per leaf
extractFromMediaNode(leaves) ==
    [i \in 1..Len(leaves) |-> NewItem(leaves[i], MediaUrl(i), MediaUrl(i))]

\* strategy 1: if (json) { media = ...; items = media ? extract(media) : [] }
Strategy1Items(json) ==
    IF json.json = "falsy" THEN <<>> ELSE extractFromMediaNode(json.leaves)

\* extractFromHtmlJson: the items of the first blob that yields any
RECURSIVE extractFromHtmlJson(_)
extractFromHtmlJson(blobs) ==
    IF blobs = <<>> THEN <<>>
    ELSE LET its == extractFromMediaNode(Head(blobs)) IN
         IF Len(its) = 0 THEN extractFromHtmlJson(Tail(blobs)) ELSE its

\* extractMetaMediaFromHtml: og:video wins over og:image; at most one item
\* mutant: the image tag is looked at first
extractMetaMediaFromHtml_ImageFirst(page) ==
    IF page.ogImage THEN <<NewItem("image", OgImageUrl, OgImageUrl)>>
    ELSE IF page.ogVideo THEN <<NewItem("video", OgVideoUrl, OgVideoUrl)>>
    ELSE <<>>

extractMetaMediaFromHtml(page) ==
    IF page.ogVideo
    THEN <<NewItem("video", OgVideoUrl, IF page.ogImage THEN OgImageUrl ELSE OgVideoUrl)>>
    ELSE IF page.ogImage THEN <<NewItem("image", OgImageUrl, OgImageUrl)>>
    ELSE <<>>

\* resolveLegacyImageUrl (instagram.ts): the URL after redirects, or "" (null)
LegacyUrl(url) == url \o <<"media", "/", "?", "size=l">>

resolveLegacyImageUrl(url, resp) ==
    IF resp.kind = "transport" THEN <<>>
    ELSE IF ~Ok(resp.status) \/ ~IsImageType(resp.ctype) THEN <<>>
    ELSE IF resp.url # <<>> THEN resp.url ELSE LegacyUrl(url)


\* ----------------------------------------- lib/instagram.ts: fetchPostMedia
Strategies == 1..4

Pending == [kind |-> "pending", message |-> "", status |-> 0]
Returned == [kind |-> "returned", message |-> "", status |-> 0]
Thrown(kind, message, status) == [kind |-> kind, message |-> message, status |-> status]

NoMediaMessage == "No media found for that post."

\* mutant: a strategy's single item is not enough to stop the cascade
HasItems_MoreThanOne(its) == Len(its) > 1

\* mutant: the length test is dropped, an empty list is taken as a result
HasItems_Always(its) == TRUE

\* items.length > 0 (lines 55, 78, 315): the strategy's items are taken
HasItems(its) == Len(its) > 0

\* the awaited response of strategy k has arrived
Answer(k, resp) ==
    /\ k \in inflight
    /\ got' = [got EXCEPT ![k] = Seen(resp)]

\* mutant: the next strategy's request is started together with this one
\* (Promise.all over two strategies instead of awaiting each in turn)
IssueNext_Parallel(k, url) ==
    /\ reqLog' = reqLog \o <<[strategy |-> k, url |-> url], [strategy |-> k + 1, url |-> url]>>
    /\ inflight' = (inflight \ {k - 1}) \cup {k, k + 1}

\* fetchWithTimeout(url) for strategy k, called once strategy k - 1 is answered
IssueNext(k, url) ==
    /\ reqLog' = Append(reqLog, [strategy |-> k, url |-> url])
    /\ inflight' = (inflight \ {k - 1}) \cup {k}

\* strategy k is answered and no request follows
Settle(k) ==
    /\ inflight' = inflight \ {k}
    /\ UNCHANGED reqLog

\* fetchPostMedia rejects with an error
Throw(kind, message, status) ==
    /\ outcome' = Thrown(kind, message, status)
    /\ pc' = "done"
    /\ UNCHANGED <<winner, items>>

\* mutant: the winning strategy's items are returned as they are
Win_NoEnrich(k, its) ==
    /\ winner' = k
    /\ items' = its
    /\ outcome' = Returned
    /\ pc' = "done"

\* strategy k's items are taken: they are enriched, then returned
Win(k, its) ==
    /\ winner' = k
    /\ items' = its
    /\ pc' = "enrich"
    /\ UNCHANGED outcome

\* mutant: strategy 1's request is issued before the input is validated
Call_RequestFirst ==
    /\ pc = "call"
    /\ pvPc \in {"direct", "awaiting"}
    /\ LET n == normalizePostUrl(postUrl) IN
       /\ IssueNext(1, postUrl \o <<"?", "__a=1&__d=dis">>)
       /\ IF n.throw # Null
          THEN /\ outcome' = Thrown("Error", n.throw, 0)
               /\ pc' = "done"
               /\ UNCHANGED norm
          ELSE /\ norm' = [url |-> n.url, shortcode |-> n.shortcode]
               /\ pc' = "s1_wait"
               /\ UNCHANGED outcome
    /\ UNCHANGED <<postUrl, got, html, yield, items, winner, enrichCalls>>
    /\ UNCHANGED notCascade

\* lines 47-51: normalizePostUrl, then strategy 1's request; the caller is the
\* preview route once it has validated the body, or another caller
Call ==
    /\ pc = "call"
    /\ pvPc \in {"direct", "awaiting"}
    /\ LET n == normalizePostUrl(postUrl) IN
       IF n.throw # Null
       THEN /\ outcome' = Thrown("Error", n.throw, 0)
            /\ pc' = "done"
            /\ UNCHANGED <<norm, inflight, reqLog>>
       ELSE /\ norm' = [url |-> n.url, shortcode |-> n.shortcode]
            /\ IssueNext(1, n.url \o <<"?", "__a=1&__d=dis">>)
            /\ pc' = "s1_wait"
            /\ UNCHANGED outcome
    /\ UNCHANGED <<postUrl, got, html, yield, items, winner, enrichCalls>>
    /\ UNCHANGED notCascade

\* lines 51-64: strategy 1's answer; items win, else strategy 2's request
RecvJson ==
    /\ pc = "s1_wait"
    /\ \E resp \in JsonResponses :
        LET its == Strategy1Items(tryFetchJson(resp)) IN
        /\ Answer(1, resp)
        /\ yield' = [yield EXCEPT ![1] = its]
        /\ IF HasItems(its)
           THEN Win(1, its) /\ Settle(1)
           ELSE /\ IssueNext(2, norm.url)
                /\ pc' = "s2_wait"
                /\ UNCHANGED <<winner, items, outcome>>
    /\ UNCHANGED <<postUrl, norm, html, enrichCalls>>
    /\ UNCHANGED notCascade

\* lines 64-71: strategy 2's answer; fetchHtml may throw; items win, else
\* strategy 3's request
RecvPage ==
    /\ pc = "s2_wait"
    /\ \E resp \in HtmlResponses :
        LET page == fetchHtml(resp) IN
        /\ Answer(2, resp)
        /\ IF page.throw # Null
           THEN /\ Throw(page.throw, page.message, page.status)
                /\ Settle(2)
                /\ UNCHANGED <<html, yield>>
           ELSE LET its == extractFromHtmlJson(page.text.blobs) IN
                /\ html' = page.text
                /\ yield' = [yield EXCEPT ![2] = its]
                /\ IF HasItems(its)
                   THEN Win(2, its) /\ Settle(2)
                   ELSE /\ IssueNext(3, norm.url \o <<"embed", "/">>)
                        /\ pc' = "s3_wait"
                        /\ UNCHANGED <<winner, items, outcome>>
    /\ UNCHANGED <<postUrl, norm, enrichCalls>>
    /\ UNCHANGED notCascade

\* lines 71-98: strategy 3's answer; items win, else strategy 4 on the page
\* kept from strategy 2: no item throws, one image item takes the legacy hop
RecvEmbed ==
    /\ pc = "s3_wait"
    /\ \E resp \in HtmlResponses :
        LET page == fetchHtml(resp) IN
        /\ Answer(3, resp)
        /\ IF page.throw # Null
           THEN /\ Throw(page.throw, page.message, page.status)
                /\ Settle(3)
                /\ UNCHANGED yield
           ELSE LET its  == extractFromHtmlJson(page.text.blobs)
                    meta == extractMetaMediaFromHtml(html)
                IN  IF HasItems(its)
                    THEN /\ yield' = [yield EXCEPT ![3] = its]
                         /\ Win(3, its) /\ Settle(3)
                    ELSE /\ yield' = [yield EXCEPT ![3] = its, ![4] = meta]
                         /\ IF ~HasItems(meta)
                            THEN Throw("Error", NoMediaMessage, 0) /\ Settle(3)
                            ELSE IF Len(meta) = 1 /\ meta[1].type = "image"
                            THEN /\ IssueNext(4, LegacyUrl(norm.url))
                                 /\ items' = meta
                                 /\ pc' = "s4_wait"
                                 /\ UNCHANGED <<winner, outcome>>
                            ELSE Win(4, meta) /\ Settle(3)
    /\ UNCHANGED <<postUrl, norm, html, enrichCalls>>
    /\ UNCHANGED notCascade

\* lines 80-86: the legacy hop's answer; a resolved URL replaces the item's
RecvLegacy ==
    /\ pc = "s4_wait"
    /\ \E resp \in LegacyResponses :
        LET legacyUrl == resolveLegacyImageUrl(norm.url, resp)
            its == IF legacyUrl # <<>>
                   THEN <<[items[1] EXCEPT !.url = legacyUrl, !.thumbnail = legacyUrl]>>
                   ELSE items
        IN  /\ Answer(4, resp)
            /\ yield' = [yield EXCEPT ![4] = its]
            /\ Win(4, its) /\ Settle(4)
    /\ UNCHANGED <<postUrl, norm, html, enrichCalls>>
    /\ UNCHANGED notCascade

\* fetchWithTimeout clears its timer as soon as fetch() has resolved with the
\* response's status line and headers (lines 126-131); res.json() (line 118)
\* and res.text() (line 111) then read the body with no timer armed.  A
\* server that answers 200 and never finishes the body leaves that await
\* pending: no later step of the call exists.
StallBody ==
    /\ \E k \in 1..3 :
        /\ pc = <<"s1_wait", "s2_wait", "s3_wait">>[k]
        /\ k \in inflight
        /\ got' = [got EXCEPT ![k] = "200"]
        /\ inflight' = inflight \ {k}
    /\ pc' = "stalled"
    /\ UNCHANGED <<postUrl, norm, reqLog, html, yield, items, winner,
                   enrichCalls, outcome>>
    /\ UNCHANGED notCascade

\* lines 58-59, 318-319, 86-95: await enrichMediaItems(items); return
EnrichAndReturn ==
    /\ pc = "enrich"
    /\ enrichCalls' = enrichCalls + 1
    /\ items' = [i \in 1..Len(items) |-> [items[i] EXCEPT !.enriched = TRUE]]
    /\ outcome' = Returned
    /\ pc' = "done"
    /\ UNCHANGED <<postUrl, norm, inflight, reqLog, got, html, yield, winner>>
    /\ UNCHANGED notCascade

InitCascade ==
    /\ postUrl \in PostInputs
    /\ pc = "call"
    /\ norm = [url |-> <<>>, shortcode |-> ""]
    /\ inflight = {}
    /\ reqLog = <<>>
    /\ got = [k \in Strategies |-> "none"]
    /\ html = EmptyHtml
    /\ yield = [k \in Strategies |-> <<>>]
    /\ items = <<>>
    /\ winner = 0
    /\ enrichCalls = 0
    /\ outcome = Pending

\* the cascade at rest, for the specifications of the other components
IdleCascade ==
    /\ postUrl = <<>>
    /\ pc = "idle"
    /\ norm = [url |-> <<>>, shortcode |-> ""]
    /\ inflight = {}
    /\ reqLog = <<>>
    /\ got = [k \in Strategies |-> "none"]
    /\ html = EmptyHtml
    /\ yield = [k \in Strategies |-> <<>>]
    /\ items = <<>>
    /\ winner = 0
    /\ enrichCalls = 0
    /\ outcome = Pending

IdleHost ==
    /\ hostIn = <<>>
    /\ hostOut = [done |-> FALSE, result |-> FALSE]

IdleRoute ==
    /\ rKind = "none"
    /\ rPc = "idle"
    /\ rUrl = <<>>
    /\ rItems = <<>>
    /\ rIdx = 0
    /\ rReqs = {}
    /\ rStatus = 0
    /\ rArchive = "none"

IdleEnrich ==
    /\ ePc = "idle"
    /\ eIn = <<>>
    /\ eItems = <<>>
    /\ eTask = <<>>

IdleShape ==
    /\ shapePc = "idle"
    /\ shapeIn = "undefined"
    /\ shapeOut = "undefined"

\* page.tsx 12-16: the state of the page component as it is mounted
NoItems == [from |-> 0, count |-> 0]    \* []

IdlePage ==
    /\ uiUrl = ""
    /\ uiItems = NoItems
    /\ uiMeta = 0
    /\ uiStatus = "idle"
    /\ uiError = ""
    /\ uiPending = {}
    /\ uiIssued = 0

IdlePreview ==
    /\ pvPc = "idle"
    /\ pvBody = "none"
    /\ pvStatus = 0
    /\ pvError = ""

\* fetchPostMedia is called directly, or a request reaches the preview route
InitPreview ==
    /\ \/ pvPc = "direct" /\ pvBody = "none"
       \/ pvPc = "request" /\ pvBody \in {"invalid json", "no url", "url"}
    /\ pvStatus = 0
    /\ pvError = ""

Init ==
    InitCascade /\ IdleHost /\ IdleRoute /\ IdleEnrich /\ IdleShape /\ InitPreview /\ IdlePage

\* ------------------------------------------------ app/api/preview/route.ts
\* message.toLowerCase().includes("invalid"), on the messages that can arrive
IncludesInvalid(message) == message \in {"Invalid post URL.", "Invalid request body."}

Answer400(message) ==
    /\ pvStatus' = 400
    /\ pvError' = message
    /\ pvPc' = "done"

\* lines 5-31: the body is read and checked, the URL is validated
PreviewValidate ==
    /\ pvPc = "request"
    /\ IF pvBody = "invalid json" THEN Answer400("Invalid request body.")
       ELSE IF pvBody = "no url" \/ postUrl = <<>> THEN Answer400("Post URL is required.")
       ELSE LET n == normalizePostUrl(postUrl) IN
            IF n.throw # Null THEN Answer400(n.throw)
            ELSE /\ pvPc' = "awaiting"
                 /\ UNCHANGED <<pvStatus, pvError>>
    /\ UNCHANGED <<pvBody, notPreview>>

\* lines 32-53: fetchPostMedia has settled; its outcome is mapped to a status
PreviewRespond ==
    /\ pvPc = "awaiting"
    /\ pc = "done"
    /\ pvPc' = "done"
    /\ IF outcome.kind = "returned"
       THEN pvStatus' = 200 /\ pvError' = ""
       ELSE /\ pvError' = outcome.message
            /\ pvStatus' = IF outcome.kind = "UpstreamError" THEN 502
                           ELSE IF IncludesInvalid(outcome.message) THEN 400
                           ELSE 500
    /\ UNCHANGED <<pvBody, notPreview>>

Next ==
    \/ PreviewValidate
    \/ PreviewRespond
    \/ Call
    \/ RecvJson
    \/ RecvPage
    \/ RecvEmbed
    \/ RecvLegacy
    \/ EnrichAndReturn
    \/ StallBody

Spec == Init /\ [][Next]_vars

\* every request fetchWithTimeout has issued is answered, fails, or is
\* aborted by its timer, and the event loop runs the continuation that awaits
\* it; nothing obliges a server to stall, nor a caller to call
Settled == RecvJson \/ RecvPage \/ RecvEmbed \/ RecvLegacy \/ EnrichAndReturn
SpecLive == Spec /\ WF_vars(Settled)


\* ------------------------------------------- lib/instagram-cdn.ts: allowlist
\* what endsWith("instagram.com") would see of the last labels' characters
\* mutant: the suffix test without its leading dot
isAllowedProxyUrl_NoDot(value) ==
    LET url == ParseUrl(value) IN
    IF ~url.ok THEN FALSE
    ELSE LET host == toLowerCase(url.hostname)
             n == Len(host)
         IN  \/ host = <<"instagram", ".", "com">>
             \/ n >= 3 /\ host[n - 2] \in EndsInInstagram /\ host[n - 1] = "." /\ host[n] = "com"
             \/ EndsWith(host, <<".", "cdninstagram", ".", "com">>)
             \/ EndsWith(host, <<".", "fbcdn", ".", "net">>)

\* isAllowedProxyUrl: false when new URL throws (the catch), else the host test
isAllowedProxyUrl(value) ==
    LET url == ParseUrl(value) IN
    IF ~url.ok THEN FALSE
    ELSE LET host == toLowerCase(url.hostname) IN
         \/ host = <<"instagram", ".", "com">>
         \/ EndsWith(host, <<".", "instagram", ".", "com">>)
         \/ EndsWith(host, <<".", "cdninstagram", ".", "com">>)
         \/ EndsWith(host, <<".", "fbcdn", ".", "net">>)

\* the values isAllowedProxyUrl is called with: hosts of up to MaxLabels labels
\* (and the link-local address), under each scheme, with user info, a port, a
\* space in the host, or no scheme at all
HostLabels ==
    {"instagram", "com", "cdninstagram", "fbcdn", "net", "evilinstagram",
     "INSTAGRAM", "scontent", "169"}

RECURSIVE JoinDots(_)
JoinDots(labels) ==
    IF Len(labels) <= 1 THEN labels
    ELSE <<Head(labels), ".">> \o JoinDots(Tail(labels))

LinkLocal == <<"169", ".", "254", ".", "169", ".", "254">>

HostNames ==
    {JoinDots(l) : l \in (SeqsUpTo(HostLabels, MaxLabels) \ {<<>>})} \cup {LinkLocal}

HostInputs(h) ==
    {<<sch, "//">> \o h \o <<"/", "x">> : sch \in Schemes}
        \cup { h \o <<"/", "x">>,
               <<"https:", "//", "instagram", ".", "com", "@">> \o h \o <<"/", "x">>,
               <<"https:", "//">> \o h \o <<":", "8080", "/", "x">>,
               <<"https:", "//">> \o h \o <<Space, "x">>,
               <<"https:", "//">> \o h \o <<"?", "u=", ".", "instagram", ".", "com">> }

\* one call of isAllowedProxyUrl(value)
CheckHost ==
    /\ ~hostOut.done
    /\ \E h \in HostNames : \E value \in HostInputs(h) :
        /\ hostIn' = value
        /\ hostOut' = [done |-> TRUE, result |-> isAllowedProxyUrl(value)]
    /\ UNCHANGED notHost

InitHost == IdleCascade /\ IdleHost /\ IdleRoute /\ IdleEnrich /\ IdleShape /\ IdlePreview /\ IdlePage

NextHost == CheckHost

SpecHost == InitHost /\ [][NextHost]_vars


\* ================================================ lib/media.ts: the enricher
\* A media URL as new URL() takes it apart: the host's labels, the kind of
\* path, the tokens of the stp parameter and the size in the efg tag.
\* ok = FALSE is a string new URL() (and so fetch) rejects.
NoDims == [w |-> 0, h |-> 0]
Dims(w, h) == [w |-> w, h |-> h]

SizeToken(prefix, w, h) == [prefix |-> prefix, w |-> w, h |-> h]
FlagToken == SizeToken("dst-jpg", 0, 0)

\* /^(p|s)\d+x\d+$/
IsSizeToken(token) == token.prefix \in {"p", "s"}

TokenText(token) ==
    IF IsSizeToken(token)
    THEN token.prefix \o ToString(token.w) \o "x" \o ToString(token.h)
    ELSE token.prefix

MUrl(host, path, stp, efg) ==
    [ok |-> TRUE, host |-> host, path |-> path, stp |-> stp, efg |-> efg]
BadUrl == [ok |-> FALSE, host |-> <<>>, path |-> "", stp |-> <<>>, efg |-> NoDims]

\* tokens.join("_")
JoinTokens(tokens) ==
    [i \in 1..(2 * Len(tokens) - 1) |->
        IF i % 2 = 1 THEN TokenText(tokens[(i + 1) \div 2]) ELSE "_"]

\* the string a media URL is sent as
Href(u) ==
    IF ~u.ok THEN <<"x">>
    ELSE <<"https:", "//">> \o u.host
            \o (IF u.path = "media" THEN <<"/", "p", "/", "Cabc123", "/", "media", "/">>
                ELSE <<"/", u.path>>)
            \o (IF u.stp = <<>> /\ u.efg = NoDims THEN <<>> ELSE <<"?">>)
            \o (IF u.stp = <<>> THEN <<>> ELSE <<"stp=">> \o JoinTokens(u.stp))
            \o (IF u.efg = NoDims THEN <<>>
                ELSE <<"efg=", ToString(u.efg.w) \o "x" \o ToString(u.efg.h)>>)

FinalHost == <<"scontent-b", ".", "fbcdn", ".", "net">>
IgHost == <<"www", ".", "instagram", ".", "com">>

\* where a redirect may end: another CDN asset, or a host off the allowlist
FinalUrl == MUrl(FinalHost, "final.jpg", <<SizeToken("p", 1080, 1350)>>, NoDims)
EvilMedia == MUrl(EvilHost, "x.jpg", <<>>, NoDims)

\* media.ts 67-74
isInstagramMediaUrl(u) ==
    /\ u.ok
    /\ Len(u.host) >= 3
    /\ u.host[Len(u.host)] = "com"
    /\ u.host[Len(u.host) - 1] = "."
    /\ u.host[Len(u.host) - 2] \in EndsInInstagram
    /\ u.path = "media"

\* media.ts 90-106: the tag's \d{3,4}x\d{3,4}
parseEfgDimensions(u) ==
    IF u.ok /\ u.efg.w \in 100..9999 /\ u.efg.h \in 100..9999 THEN u.efg ELSE NoDims

\* media.ts 220-230: the first (p|s)\d+x\d+ of stp
FirstSize(tokens) ==
    IF \E i \in 1..Len(tokens) : IsSizeToken(tokens[i])
    THEN CHOOSE i \in 1..Len(tokens) :
            /\ IsSizeToken(tokens[i])
            /\ \A j \in 1..(i - 1) : ~IsSizeToken(tokens[j])
    ELSE 0

inferDimensionsFromUrl(u) ==
    IF u.ok /\ FirstSize(u.stp) # 0
    THEN Dims(u.stp[FirstSize(u.stp)].w, u.stp[FirstSize(u.stp)].h)
    ELSE NoDims

\* Math.round(n / d) for positive n and d
Round(n, d) == (2 * n + d) \div (2 * d)

Remove == [kind |-> "remove", w |-> 0, h |-> 0, prefix |-> ""]
Sized(w, h, prefix) == [kind |-> "size", w |-> w, h |-> h, prefix |-> prefix]

Tiers == <<1440, 1200>>

\* media.ts 171-179: the candidates of the tiers from the k-th on
RECURSIVE TierCandidates(_, _, _, _)
TierCandidates(k, origW, origH, prefix) ==
    IF k > Len(Tiers) THEN <<>>
    ELSE (IF Tiers[k] > origW
          THEN <<Sized(Tiers[k], Round(Tiers[k] * origH, origW), "s")>>
                 \o (IF prefix # "s"
                     THEN <<Sized(Tiers[k], Round(Tiers[k] * origH, origW), prefix)>>
                     ELSE <<>>)
          ELSE <<>>)
         \o TierCandidates(k + 1, origW, origH, prefix)

\* mutant: tryUpgradeSize goes on to probe the URL without its size token
\* whenever the URL parses
Candidates_NoEarlyReturn(u, target) == IF u.ok THEN <<Remove>> ELSE <<>>

\* media.ts 134-184: the candidate list of tryUpgradeSize (<<>> where it
\* returns null before building one); target = NoDims when undefined
Candidates(u, target) ==
    IF ~u.ok \/ u.stp = <<>> \/ FirstSize(u.stp) = 0 THEN <<>>
    ELSE
      LET tok   == u.stp[FirstSize(u.stp)]
          origW == tok.w
          origH == tok.h
          efg   == parseEfgDimensions(u)
      IN  IF origW = 0 \/ origH = 0 THEN <<>>
          ELSE (IF efg # NoDims /\ efg.w > origW
                THEN <<Sized(efg.w, efg.h, tok.prefix)>> ELSE <<>>)
               \o (IF target # NoDims /\ target.w > origW
                   THEN <<Sized(target.w, target.h, tok.prefix)>> ELSE <<>>)
               \o <<Remove>>
               \o TierCandidates(1, origW, origH, tok.prefix)
               \o (IF Round(origW * 4, 3) > origW
                   THEN <<Sized(Round(origW * 4, 3), Round(origH * 4, 3), tok.prefix)>>
                   ELSE <<>>)

OrigW(u) == u.stp[FirstSize(u.stp)].w
OrigSize(u) == Dims(u.stp[FirstSize(u.stp)].w, u.stp[FirstSize(u.stp)].h)

\* mutant: every candidate is built on the default CDN host
buildCandidateUrl_Rehost(u, candidate) ==
    [u EXCEPT !.host = FinalHost,
              !.stp = IF candidate.kind = "remove" THEN <<>>
                      ELSE <<SizeToken(candidate.prefix, candidate.w, candidate.h)>>]

\* media.ts 108-128
buildCandidateUrl(u, candidate) ==
    LET sizeIndex == FirstSize(u.stp)
    IN  IF candidate.kind = "remove"
        THEN [u EXCEPT !.stp = SubSeq(u.stp, 1, sizeIndex - 1)
                                 \o SubSeq(u.stp, sizeIndex + 1, Len(u.stp))]
        ELSE [u EXCEPT !.stp[sizeIndex] =
                    SizeToken(candidate.prefix, candidate.w, candidate.h)]

\* mutant: the comparison is turned around
IsWider_Narrower(dims, origW) == dims.w < origW

\* mutant: an asset as wide as the original counts as an upgrade
IsWider_OrEqual(dims, origW) == dims.w >= origW

\* media.ts 194: is the sniffed asset better than the original
IsWider(dims, origW) == dims.w > origW

\* ---- what the network answers to the enricher's requests
NoUrl == [ok |-> FALSE, host |-> <<>>, path |-> "null", stp |-> <<>>, efg |-> NoDims]

\* HEAD / GET of an image URL; url is res.url (NoUrl: not set)
MediaResponses ==
    {Transport}
        \cup [kind : {"http"}, status : {200, 404},
              ctype : {"image/jpeg", "text/html"},
              url : {NoUrl, FinalUrl, EvilMedia}]

\* the first 4096 bytes of an asset, by the size their header carries
\* (NoDims: neither a PNG nor a JPEG header)
SniffDims ==
    {NoDims, Dims(640, 640), Dims(1080, 1350), Dims(1440, 1800), Dims(2160, 2700)}
SniffResponses ==
    {Transport} \cup [kind : {"http"}, status : {200, 404}, body : SniffDims]

ContentLengths == {"", "2048"}
SizeResponses ==
    {Transport} \cup [kind : {"http"}, status : {200, 404}, length : ContentLengths]

\* Number(length)
NumberOf(length) == IF length = "2048" THEN 2048 ELSE 0

\* media.ts 203-205, 209-213: what one request of probeImageUrl yields
\* (NoUrl: nothing)
ProbeResult(resp, url) ==
    IF resp.kind = "http" /\ Ok(resp.status) /\ IsImageType(resp.ctype)
    THEN (IF resp.url = NoUrl THEN url ELSE resp.url)
    ELSE NoUrl

\* media.ts 76-88
media_resolveLegacyImageUrl(resp, url) ==
    IF resp.kind = "transport" THEN NoUrl
    ELSE IF ~Ok(resp.status) \/ ~IsImageType(resp.ctype) THEN NoUrl
    ELSE IF resp.url = NoUrl THEN url ELSE resp.url

\* media.ts 232-241, 243-246
probeImageDimensions(resp) ==
    IF resp.kind = "transport" THEN NoDims
    ELSE IF ~Ok(resp.status) THEN NoDims
    ELSE resp.body

\* what an await gives when the awaited promise rejects
Rejected == -1

\* mutant: fetchFileSize without its try/catch
fetchFileSize_NoCatch(resp) ==
    IF resp.kind = "transport" THEN Rejected
    ELSE IF ~Ok(resp.status) THEN 0
    ELSE IF resp.length = "" THEN 0 ELSE NumberOf(resp.length)

\* media.ts 43-52
fetchFileSize(resp) ==
    IF resp.kind = "transport" THEN 0
    ELSE IF ~Ok(resp.status) THEN 0
    ELSE IF resp.length = "" THEN 0 ELSE NumberOf(resp.length)

\* ---- the items enrichMediaItems is given
Item(type, url, w, h) ==
    [type |-> type, url |-> url, thumbnail |-> url, width |-> w, height |-> h,
     filesize |-> 0]

ImgUrl(stp, efg) == MUrl(CdnHost, "a.jpg", stp, efg)
P1080 == SizeToken("p", 1080, 1350)

ItemInputs ==
    { Item("image", ImgUrl(<<FlagToken, P1080>>, NoDims), 0, 0),
      Item("image", ImgUrl(<<FlagToken, P1080>>, Dims(1440, 1800)), 1440, 1800),
      Item("image", ImgUrl(<<FlagToken, P1080>>, Dims(2160, 2700)), 0, 0),
      Item("image", ImgUrl(<<SizeToken("s", 640, 640)>>, NoDims), 1080, 1080),
      Item("image", ImgUrl(<<SizeToken("p", 1440, 1800), FlagToken>>, NoDims), 0, 0),
      Item("image", ImgUrl(<<FlagToken>>, NoDims), 1080, 1350),
      Item("image", ImgUrl(<<SizeToken("p", 0, 1350)>>, NoDims), 0, 0),
      Item("image", MUrl(IgHost, "media", <<>>, NoDims), 0, 0),
      Item("image", EvilMedia, 0, 0),
      Item("image", BadUrl, 0, 0),
      Item("video", MUrl(CdnHost, "v.mp4", <<>>, NoDims), 720, 1280),
      [Item("video", MUrl(CdnHost, "v.mp4", <<FlagToken, SizeToken("s", 720, 1280)>>, NoDims),
            640, 0) EXCEPT !.thumbnail = ImgUrl(<<>>, NoDims)],
      Item("video", EvilMedia, 0, 0) }

\* the further items of a post
MoreInputs == {Item("video", MUrl(CdnHost, "v.mp4", <<>>, NoDims), 720, 1280)}

MaxEnrich == 2    \* items of one enrichMediaItems call

EnrichInputs ==
    {<<>>} \cup
    UNION {{<<a>> \o more : a \in ItemInputs, more \in [1..k -> MoreInputs]} :
                k \in 0..(MaxEnrich - 1)}

\* ---- one item's task: the async callback of items.map
Req(kind, url) == [kind |-> kind, url |-> url]
NoReq == Req("none", NoUrl)
NotReturned == [state |-> "none", url |-> NoUrl, dims |-> NoDims]
ReturnedNull == [state |-> "null", url |-> NoUrl, dims |-> NoDims]
ReturnedUrl(url, dims) == [state |-> "url", url |-> url, dims |-> dims]

\* seen: the answer to the file-size HEAD; dims: what the last sniff gave; redirects: the post-redirect URLs sniffed
\* so far in this tryUpgradeSize call; same: every candidate tried so far was
\* probed and sniffed at the size of the original; up: what tryUpgradeSize
\* returned, with the sniffed size
NewTask(target) ==
    [pc |-> "start", target |-> target, cur |-> NoUrl, cands |-> <<>>, idx |-> 0,
     result |-> NoUrl, dims |-> NoDims, redirects |-> {}, req |-> NoReq,
     up |-> NotReturned, same |-> FALSE, seen |-> "none"]

\* media.ts 38, 45-51: item.filesize = await fetchFileSize(item.url), the
\* callback's last statement; a rejection would reject the callback
EndSize(t, it, resp) ==
    IF fetchFileSize(resp) = Rejected
    THEN [t |-> [t EXCEPT !.pc = "raised", !.seen = Seen(resp)], it |-> it]
    ELSE [t |-> [t EXCEPT !.pc = "done", !.seen = Seen(resp)],
          it |-> [it EXCEPT !.filesize = fetchFileSize(resp)]]

\* media.ts 38, 43-45: fetchFileSize issues its HEAD (fetch rejects a string
\* that is no URL without sending anything)
StartSize(t, it) ==
    IF it.url.ok
    THEN [t |-> [t EXCEPT !.pc = "size", !.req = Req("size", it.url)], it |-> it]
    ELSE EndSize(t, it, Transport)

\* mutant: the URL's token is applied whether or not the size is known
AfterDims_Overwrite(t, it, probed) ==
    LET it1 == IF probed # NoDims
               THEN [it EXCEPT !.width = probed.w, !.height = probed.h] ELSE it
        inf == inferDimensionsFromUrl(it1.url)
        it2 == IF inf # NoDims
               THEN [it1 EXCEPT !.width = inf.w, !.height = inf.h] ELSE it1
    IN  StartSize(t, it2)

\* media.ts 26-38
AfterDims(t, it, probed) ==
    LET it1 == IF probed # NoDims
               THEN [it EXCEPT !.width = probed.w, !.height = probed.h] ELSE it
        inf == inferDimensionsFromUrl(it1.url)
        it2 == IF (it1.width = 0 \/ it1.height = 0) /\ inf # NoDims
               THEN [it1 EXCEPT !.width = inf.w, !.height = inf.h] ELSE it1
    IN  StartSize(t, it2)

\* media.ts 64, 23-25: upgraded ?? current becomes the item's url, and
\* probeImageDimensions issues its GET
AfterPromote(t, it, up) ==
    LET url == IF up.state = "url" THEN up.url ELSE t.cur
        it1 == [it EXCEPT !.url = url, !.thumbnail = url]
        t1  == [t EXCEPT !.up = up, !.redirects = {}]
    IN  IF url.ok
        THEN [t |-> [t1 EXCEPT !.pc = "dims", !.req = Req("dims", url)], it |-> it1]
        ELSE AfterDims([t1 EXCEPT !.dims = NoDims], it1, NoDims)

\* media.ts 187-189: the k-th candidate's HEAD goes out; past the last,
\* tryUpgradeSize returns null (198)
Probe(t, it, k) ==
    IF k <= Len(t.cands)
    THEN [t |-> [t EXCEPT !.idx = k, !.pc = "head", !.result = NoUrl,
                          !.req = Req("head", buildCandidateUrl(t.cur, t.cands[k]))],
          it |-> it]
    ELSE AfterPromote(t, it, ReturnedNull)

\* media.ts 63, 134-186
StartUpgrade(t, it, cur) ==
    LET t1 == [t EXCEPT !.cur = cur, !.cands = Candidates(cur, t.target),
                        !.same = Candidates(cur, t.target) # <<>>]
    IN  Probe(t1, it, 1)

\* mutant: videos are promoted like images
StartItem_PromoteAll(it) ==
    LET t == NewTask(IF it.width # 0 /\ it.height # 0
                     THEN Dims(it.width, it.height) ELSE NoDims)
    IN  IF isInstagramMediaUrl(it.url)
        THEN [t |-> [t EXCEPT !.pc = "legacy", !.cur = it.url,
                              !.req = Req("legacy", it.url)],
              it |-> it]
        ELSE StartUpgrade(t, it, it.url)

\* media.ts 17-23, 58-60
StartItem(it) ==
    LET t == NewTask(IF it.width # 0 /\ it.height # 0
                     THEN Dims(it.width, it.height) ELSE NoDims)
    IN  IF it.type = "image"
        THEN IF isInstagramMediaUrl(it.url)
             THEN [t |-> [t EXCEPT !.pc = "legacy", !.cur = it.url,
                                   !.req = Req("legacy", it.url)],
                   it |-> it]
             ELSE StartUpgrade(t, it, it.url)
        ELSE AfterDims(t, it, NoDims)

\* ---- the steps of enrichMediaItems, one per awaited answer
\* mutant: a callback also writes its item's url into the other items' thumbnail
Put_Shared(i, r) ==
    /\ eTask' = [eTask EXCEPT ![i] = r.t]
    /\ eItems' = [j \in 1..Len(eItems) |->
                    IF j = i THEN r.it ELSE [eItems[j] EXCEPT !.thumbnail = r.it.url]]
    /\ UNCHANGED <<ePc, eIn>>
    /\ UNCHANGED notEnrich

Put(i, r) ==
    /\ eTask' = [eTask EXCEPT ![i] = r.t]
    /\ eItems' = [eItems EXCEPT ![i] = r.it]
    /\ UNCHANGED <<ePc, eIn>>
    /\ UNCHANGED notEnrich

\* media.ts 15-17: every callback runs up to its first request
EnrichCall ==
    /\ ePc = "idle"
    /\ \E input \in EnrichInputs :
        /\ eIn' = input
        /\ eItems' = [i \in 1..Len(input) |-> StartItem(input[i]).it]
        /\ eTask' = [i \in 1..Len(input) |-> StartItem(input[i]).t]
    /\ ePc' = "running"
    /\ UNCHANGED notEnrich

\* media.ts 60-63: the legacy hop answers; tryUpgradeSize starts
LegacyResp ==
    \E i \in 1..Len(eTask) :
        /\ eTask[i].pc = "legacy"
        /\ \E resp \in MediaResponses :
            LET resolved == media_resolveLegacyImageUrl(resp, eTask[i].cur)
            IN  Put(i, StartUpgrade(eTask[i], eItems[i],
                                    IF resolved # NoUrl THEN resolved
                                    ELSE eTask[i].cur))

\* media.ts 193: probeImageDimensions(result) issues its GET
Sniff(t, it, result) ==
    [t |-> [t EXCEPT !.pc = "sniff", !.result = result, !.req = Req("sniff", result)],
     it |-> it]

\* media.ts 203-209: the HEAD answers; failing it, the ranged GET goes out
HeadResp ==
    \E i \in 1..Len(eTask) :
        /\ eTask[i].pc = "head"
        /\ \E resp \in MediaResponses :
            LET result == ProbeResult(resp, eTask[i].req.url)
            IN  IF result # NoUrl
                THEN Put(i, Sniff(eTask[i], eItems[i], result))
                ELSE Put(i, [t |-> [eTask[i] EXCEPT !.pc = "get",
                                        !.req = Req("get", eTask[i].req.url)],
                             it |-> eItems[i]])

\* media.ts 209-217, 190: the ranged GET answers
GetResp ==
    \E i \in 1..Len(eTask) :
        /\ eTask[i].pc = "get"
        /\ \E resp \in MediaResponses :
            LET result == ProbeResult(resp, eTask[i].req.url)
            IN  IF result # NoUrl
                THEN Put(i, Sniff(eTask[i], eItems[i], result))
                ELSE Put(i, Probe([eTask[i] EXCEPT !.same = FALSE], eItems[i],
                                  eTask[i].idx + 1))

\* the post-redirect URLs sniffed once task t's sniff has been answered
Redirects(t) ==
    IF t.result # buildCandidateUrl(t.cur, t.cands[t.idx])
    THEN t.redirects \cup {t.result} ELSE t.redirects

\* media.ts 193-196: the sniff answers
SniffResp ==
    \E i \in 1..Len(eTask) :
        /\ eTask[i].pc = "sniff"
        /\ \E resp \in SniffResponses :
            LET dims == probeImageDimensions(resp)
                t    == [eTask[i] EXCEPT !.dims = dims,
                                         !.redirects = Redirects(eTask[i]),
                                         !.same = @ /\ dims = OrigSize(eTask[i].cur)]
            IN  IF dims # NoDims /\ IsWider(dims, OrigW(t.cur))
                THEN Put(i, AfterPromote(t, eItems[i], ReturnedUrl(t.result, dims)))
                ELSE IF dims = NoDims
                THEN Put(i, AfterPromote(t, eItems[i], ReturnedUrl(t.result, dims)))
                ELSE Put(i, Probe(t, eItems[i], t.idx + 1))

\* media.ts 25-38: the final dimension probe answers
DimsResp ==
    \E i \in 1..Len(eTask) :
        /\ eTask[i].pc = "dims"
        /\ \E resp \in SniffResponses :
            Put(i, AfterDims([eTask[i] EXCEPT !.dims = probeImageDimensions(resp)],
                             eItems[i], probeImageDimensions(resp)))

\* media.ts 38, 45-51: the file-size HEAD answers
SizeResp ==
    \E i \in 1..Len(eTask) :
        /\ eTask[i].pc = "size"
        /\ \E resp \in SizeResponses :
            Put(i, EndSize(eTask[i], eItems[i], resp))

\* media.ts 16, 40: Promise.all resolves once every callback has, or rejects
\* with the first that does
EnrichReturn ==
    /\ ePc = "running"
    /\ \/ \A i \in 1..Len(eTask) : eTask[i].pc = "done"
       \/ \E i \in 1..Len(eTask) : eTask[i].pc = "raised"
    /\ ePc' = IF \E i \in 1..Len(eTask) : eTask[i].pc = "raised"
              THEN "rejected" ELSE "done"
    /\ UNCHANGED <<eIn, eItems, eTask>>
    /\ UNCHANGED notEnrich

InitEnrich == IdleCascade /\ IdleHost /\ IdleRoute /\ IdleEnrich /\ IdleShape /\ IdlePreview /\ IdlePage

NextEnrich ==
    \/ EnrichCall
    \/ LegacyResp
    \/ HeadResp
    \/ GetResp
    \/ SniffResp
    \/ DimsResp
    \/ SizeResp
    \/ EnrichReturn

SpecEnrich == InitEnrich /\ [][NextEnrich]_vars

\* ------------------------------------------------ app/api: the boundary layer
\* what the upstream answers to a fetch made by a route
RouteResponses == {"transport", "notok", "ok"}

\* the url parameter of GET /api/proxy (<<>>: missing)
LinkLocalUrl == <<"http:", "//">> \o LinkLocal \o <<"/", "x">>
ProxyInputs == {<<>>, MediaUrl(1), OgVideoUrl, EvilUrl, LinkLocalUrl, <<"x">>}

\* what fetchPostMedia gives the download route: an error, or one to MaxItems
\* items whose urls come from the upstream's data (JSON fields, meta tags,
\* post-redirect URLs)
RouteItemUrls == {MediaUrl(1), OgVideoUrl, EvilUrl}
PostMediaOutcomes ==
    {[kind |-> k, urls |-> <<>>] : k \in {"UpstreamError", "Error"}}
        \cup {[kind |-> "returned", urls |-> u] :
                u \in (SeqsUpTo(RouteItemUrls, MaxItems) \ {<<>>})}

\* proxy/route.ts 4-14: GET; the checks, then fetch(rawUrl)
ProxyGet ==
    /\ rKind = "none"
    /\ rKind' = "proxy"
    /\ \E rawUrl \in ProxyInputs :
        /\ rUrl' = rawUrl
        /\ IF rawUrl = <<>> \/ ~isAllowedProxyUrl(rawUrl)
           THEN /\ rStatus' = 400
                /\ rPc' = "done"
                /\ UNCHANGED rReqs
           ELSE /\ rReqs' = rReqs \cup {rawUrl}
                /\ rPc' = "proxy_wait"
                /\ UNCHANGED rStatus
    /\ UNCHANGED <<rItems, rIdx, rArchive>>
    /\ UNCHANGED notRoute

\* proxy/route.ts 14-27: the upstream's answer is streamed, or 502
ProxyResp ==
    /\ rPc = "proxy_wait"
    /\ \E resp \in RouteResponses :
        rStatus' = IF resp = "ok" THEN 200 ELSE 502
    /\ rPc' = "done"
    /\ UNCHANGED <<rKind, rUrl, rItems, rIdx, rReqs, rArchive>>
    /\ UNCHANGED notRoute

\* download route 7-35: POST; body and post URL checks, then fetchPostMedia
DownloadPost ==
    /\ rKind = "none"
    /\ rKind' = "download"
    /\ \E url \in PostInputs \cup {<<>>} :
        /\ rUrl' = url
        /\ IF url = <<>> \/ normalizePostUrl(url).throw # Null
           THEN rStatus' = 400 /\ rPc' = "done"
           ELSE rPc' = "dl_resolve" /\ UNCHANGED rStatus
    /\ UNCHANGED <<rItems, rIdx, rReqs, rArchive>>
    /\ UNCHANGED notRoute

\* download route 35-107 and 108-120: fetchPostMedia's outcome.  One item:
\* fetch(item.url).  Several: the ZIP response is returned and the loop's
\* first fetch(item.url) goes out.
DownloadResolved ==
    /\ rPc = "dl_resolve"
    /\ \E res \in PostMediaOutcomes :
        IF res.kind # "returned"
        THEN /\ rStatus' = IF res.kind = "UpstreamError" THEN 502 ELSE 500
             /\ rPc' = "done"
             /\ UNCHANGED <<rItems, rIdx, rReqs, rArchive>>
        ELSE IF Len(res.urls) = 0
        THEN /\ rStatus' = 400
             /\ rPc' = "done"
             /\ UNCHANGED <<rItems, rIdx, rReqs, rArchive>>
        ELSE IF Len(res.urls) = 1
        THEN /\ rItems' = res.urls
             /\ rReqs' = rReqs \cup {res.urls[1]}
             /\ rPc' = "dl_single"
             /\ UNCHANGED <<rStatus, rIdx, rArchive>>
        ELSE /\ rItems' = res.urls
             /\ rStatus' = 200
             /\ rArchive' = "open"
             /\ rIdx' = 1
             /\ rReqs' = rReqs \cup {res.urls[1]}
             /\ rPc' = "dl_zip"
    /\ UNCHANGED <<rKind, rUrl>>
    /\ UNCHANGED notRoute

\* download route 48-61, 108-120: the single item's answer
DownloadSingleResp ==
    /\ rPc = "dl_single"
    /\ \E resp \in RouteResponses :
        rStatus' = CASE resp = "ok" -> 200
                     [] resp = "notok" -> 502
                     [] OTHER -> 500
    /\ rPc' = "done"
    /\ UNCHANGED <<rKind, rUrl, rItems, rIdx, rReqs, rArchive>>
    /\ UNCHANGED notRoute

\* download route 86-98: the ZIP loop; a bad answer aborts the archive, a good
\* one is appended and the next item fetched, the last finalizes; a rejected
\* fetch ends the loop with the archive left open
DownloadZipResp ==
    /\ rPc = "dl_zip"
    /\ \E resp \in RouteResponses :
        IF resp = "notok"
        THEN rArchive' = "aborted" /\ rPc' = "done" /\ UNCHANGED <<rIdx, rReqs>>
        ELSE IF resp = "transport"
        THEN rPc' = "done" /\ UNCHANGED <<rArchive, rIdx, rReqs>>
        ELSE IF rIdx < Len(rItems)
        THEN /\ rIdx' = rIdx + 1
             /\ rReqs' = rReqs \cup {rItems[rIdx + 1]}
             /\ UNCHANGED <<rPc, rArchive>>
        ELSE rArchive' = "finalized" /\ rPc' = "done" /\ UNCHANGED <<rIdx, rReqs>>
    /\ UNCHANGED <<rKind, rUrl, rItems, rStatus>>
    /\ UNCHANGED notRoute

InitRoute == IdleCascade /\ IdleHost /\ IdleRoute /\ IdleEnrich /\ IdleShape /\ IdlePreview /\ IdlePage

NextRoute ==
    \/ ProxyGet
    \/ ProxyResp
    \/ DownloadPost
    \/ DownloadResolved
    \/ DownloadSingleResp
    \/ DownloadZipResp

SpecRoute == InitRoute /\ [][NextRoute]_vars


\* ======================================================= the strategy cascade
Blocked == {"401", "403"}

LaterRequest(k) == \E i \in 1..Len(reqLog) : reqLog[i].strategy > k

SameItems(a, b) ==
    /\ Len(a) = Len(b)
    /\ \A i \in 1..Len(a) : a[i].type = b[i].type /\ a[i].url = b[i].url

\* C1: once a strategy has yielded at least one item, no request of a later
\* strategy is ever issued, and what fetchPostMedia returns is that strategy's
\* items (so: strategy 1 empty, strategy 2 one item => strategy 2's item is
\* returned and the embed page is never fetched).
C1_ShortCircuit ==
    \A k \in Strategies :
        Len(yield[k]) > 0 =>
            /\ ~LaterRequest(k)
            /\ pc = "done" => /\ outcome = Returned
                              /\ winner = k
                              /\ SameItems(items, yield[k])

C1_Witness ==
    /\ pc = "done"
    /\ got[1] = "200" /\ yield[1] = <<>>
    /\ Len(yield[2]) = 1
    /\ outcome = Returned /\ winner = 2 /\ Len(reqLog) = 2

\* C2: fetchPostMedia never returns an empty items list; when every strategy
\* was answered and none yielded an item it throws "No media found".
C2_NeverEmpty ==
    /\ outcome.kind = "returned" => Len(items) > 0
    /\ ( /\ pc = "done"
         /\ \A k \in 1..3 : got[k] = "200"
         /\ \A k \in Strategies : yield[k] = <<>> )
         => outcome = Thrown("Error", NoMediaMessage, 0)

C2_Witness ==
    /\ pc = "done"
    /\ \A k \in 1..3 : got[k] = "200"
    /\ \A k \in Strategies : yield[k] = <<>>
    /\ outcome = Thrown("Error", NoMediaMessage, 0)

\* C3 as stated: a 401/403 answer to ANY strategy's request, strategy 1's JSON
\* endpoint included, is surfaced at once as UpstreamError and no later
\* strategy is attempted.
C3_AnyStrategyBlockedSurfaces ==
    \A k \in Strategies :
        got[k] \in Blocked => outcome.kind = "UpstreamError" /\ ~LaterRequest(k)

\* C3 amended: a 401/403 answer to the post-page or embed-page fetch
\* (strategies 2, 3) is surfaced at once as UpstreamError with that status and
\* no later strategy is attempted; a 401/403 from strategy 1's JSON endpoint
\* is swallowed (strategy 1 yields nothing, strategy 2 is requested), and one
\* from strategy 4's legacy hop is swallowed (the meta-tag item keeps its URL).
C3_BlockedSurfaces ==
    /\ \A k \in {2, 3} :
          got[k] \in Blocked =>
              /\ pc = "done"
              /\ outcome.kind = "UpstreamError"
              /\ outcome.message = BlockedMessage
              /\ ToString(outcome.status) = got[k]
              /\ winner = 0
              /\ ~LaterRequest(k)
    /\ got[1] \in Blocked => yield[1] = <<>> /\ LaterRequest(1)
    /\ got[4] \in Blocked =>
          /\ winner = 4
          /\ outcome.kind \in {"pending", "returned"}
          /\ items[1].url = OgImageUrl

C3_Witness ==
    /\ got[1] = "401"
    /\ got[2] = "403"
    /\ outcome = Thrown("UpstreamError", BlockedMessage, 403)

\* C4 as stated: a transport failure of the fetch inside any one strategy is
\* swallowed: the cascade goes on to the next strategy and fetchPostMedia does
\* not fail with the fetch's error.
C4_TransportSwallowed ==
    \A k \in 1..3 :
        got[k] = "transport" => outcome.kind # "FetchError" /\ LaterRequest(k)

\* C5: the strategies' requests are issued in the order 1, 2, 3, 4, each only
\* when every earlier strategy's answer is known, and at most one of them is
\* in flight at any time.
C5_Sequential ==
    /\ Cardinality(inflight) <= 1
    /\ \A i \in 1..Len(reqLog) :
          /\ reqLog[i].strategy = i
          /\ \A j \in 1..(i - 1) : got[j] # "none"
    /\ \A k \in inflight : k = Len(reqLog) /\ got[k] = "none"

C5_Witness ==
    /\ pc = "s4_wait"
    /\ inflight = {4}
    /\ Len(reqLog) = 4
    /\ \A j \in 1..3 : got[j] # "none"


\* ===================================================== the allowlist validator
\* the dot-separated labels of a host name
RECURSIVE SplitDots(_)
SplitDots(h) ==
    LET d == IndexFrom(h, {"."}, 1) IN
    IF d = 0 THEN <<h>>
    ELSE <<SubSeq(h, 1, d - 1)>> \o SplitDots(SubSeq(h, d + 1, Len(h)))

AllowedDomains ==
    {<<(<<"instagram">>), (<<"com">>)>>, <<(<<"cdninstagram">>), (<<"com">>)>>,
     <<(<<"fbcdn">>), (<<"net">>)>>}

\* the claim's reading of the allowlist, label by label
OnAllowlist(value) ==
    LET url == ParseUrl(value) IN
    /\ url.ok
    /\ LET L == SplitDots(toLowerCase(url.hostname))
           n == Len(L)
       IN  \/ L = <<(<<"instagram">>), (<<"com">>)>>
           \/ n >= 3 /\ <<L[n - 1], L[n]>> \in AllowedDomains

\* C9: isAllowedProxyUrl(url) is true exactly when the URL parses and its
\* lower-cased host is instagram.com or a subdomain of instagram.com,
\* cdninstagram.com or fbcdn.net; it is false for everything else, among them
\* strings that do not parse and the link-local address 169.254.169.254.
C9_AllowlistExact ==
    hostOut.done =>
        /\ hostOut.result = OnAllowlist(hostIn)
        /\ ~ParseUrl(hostIn).ok => hostOut.result = FALSE
        /\ (ParseUrl(hostIn).ok /\ ParseUrl(hostIn).hostname = LinkLocal)
               => hostOut.result = FALSE

C9_Witness ==
    /\ hostOut.done
    /\ hostOut.result = FALSE
    /\ hostIn = <<"https:", "//", "evilinstagram", ".", "com", "/", "x">>


\* ============================================================ the enricher
Allowed(u) == isAllowedProxyUrl(Href(u))

\* C6 as stated: every request the enricher and the upgrade engine send (the
\* legacy hop, a candidate's HEAD and ranged GET, a dimension sniff, the
\* file-size HEAD) goes to a URL that passes the allowlist; to a URL off the
\* allowlist nothing is sent.
C6_OutboundGuarded ==
    \A i \in 1..Len(eTask) :
        eTask[i].req.kind # "none" => Allowed(eTask[i].req.url)

\* C7 as stated: for an item whose URL was on the allowlist, a redirect never
\* takes it off: probeImageUrl's result, the item's url and the URL of every
\* later request stay on the allowlist.
C7_RedirectRevalidated ==
    \A i \in 1..Len(eTask) :
        Allowed(eIn[i].url) =>
            /\ eTask[i].result # NoUrl => Allowed(eTask[i].result)
            /\ Allowed(eItems[i].url)
            /\ eTask[i].req.kind # "none" => Allowed(eTask[i].req.url)

\* C10: tryUpgradeSize never returns a URL that was sniffed at a width less
\* than or equal to the original's; and when every candidate was probed and
\* sniffed at the original's size it returns null, the item keeping the URL
\* it had.
C10_NeverNotWider ==
    \A i \in 1..Len(eTask) :
        LET t == eTask[i]
        IN  /\ (t.up.state = "url" /\ t.up.dims # NoDims)
                => t.up.dims.w > OrigW(t.cur)
            /\ (t.up.state # "none" /\ t.same)
                => (t.up.state = "null" /\ eItems[i].url = t.cur)

C10_Witness ==
    \E i \in 1..Len(eTask) :
        /\ eTask[i].up.state = "null"
        /\ eTask[i].same
        /\ Len(eTask[i].cands) >= 4
        /\ eItems[i].url = eIn[i].url


\* ============================================================ the boundary
\* C8 as stated: every URL a route fetches itself (the proxy's url parameter,
\* the download route's item.url on the single-file and on the ZIP path) has
\* passed the allowlist validator; none is fetched that fails it.
C8_BoundaryGuarded == \A u \in rReqs : isAllowedProxyUrl(u)

\* ====================================================== the upgrade engine
\* C11 as stated: a candidate whose probe succeeded but whose dimensions could
\* not be sniffed is never accepted: whatever tryUpgradeSize returns was
\* positively verified to be wider than the original.
C11_NoUnverifiedAcceptance ==
    \A i \in 1..Len(eTask) :
        eTask[i].up.state = "url" =>
            /\ eTask[i].up.dims # NoDims
            /\ eTask[i].up.dims.w > OrigW(eTask[i].cur)

\* the kind of a candidate of task t: 1 from the CDN tag, 2 from the caller's
\* dimensions, 3 a resolution tier, 4 the constraint removal, 5 anything else
CandidateKind(t, c) ==
    LET efg == parseEfgDimensions(t.cur) IN
    IF c = Remove THEN 4
    ELSE IF efg # NoDims /\ c.w = efg.w /\ c.h = efg.h THEN 1
    ELSE IF t.target # NoDims /\ c.w = t.target.w /\ c.h = t.target.h THEN 2
    ELSE IF c.w \in Range(Tiers) THEN 3
    ELSE 5

\* C12 as stated: the candidates are probed in strict priority order: those of
\* the CDN tag, then of the caller's dimensions, then the tiers in descending
\* width, and the constraint removal last, after every tier; the list holds no
\* other kind of candidate.
C12_PriorityOrder ==
    \A i \in 1..Len(eTask) :
        LET t == eTask[i] IN
        \A k \in 1..Len(t.cands) :
            /\ CandidateKind(t, t.cands[k]) <= 4
            /\ k < Len(t.cands) =>
                /\ CandidateKind(t, t.cands[k]) <= CandidateKind(t, t.cands[k + 1])
                /\ (CandidateKind(t, t.cands[k]) = 3 /\ CandidateKind(t, t.cands[k + 1]) = 3)
                       => t.cands[k].w >= t.cands[k + 1].w
            /\ t.pc \in {"head", "get", "sniff"} => t.idx \in 1..Len(t.cands)

\* the CDN tag of task t's URL reports a size wider than the original and
\* than every tier
TagWiderThanTiers(t) ==
    /\ t.cands # <<>>
    /\ parseEfgDimensions(t.cur) # NoDims
    /\ parseEfgDimensions(t.cur).w > OrigW(t.cur)
    /\ \A k \in 1..Len(Tiers) : parseEfgDimensions(t.cur).w > Tiers[k]

TagCandidate(t) ==
    Sized(parseEfgDimensions(t.cur).w, parseEfgDimensions(t.cur).h,
          t.cur.stp[FirstSize(t.cur.stp)].prefix)

\* C13: when the CDN tag reports a size wider than any tier, the tag-derived
\* candidate is the first one probed, and once its probe has succeeded and
\* its sniff gives the tag's size, tryUpgradeSize returns that probe's URL,
\* which becomes the item's url; no other candidate is probed.
C13_TagCandidateWins ==
    /\ [](\A i \in 1..Len(eTask) :
            TagWiderThanTiers(eTask[i]) => eTask[i].cands[1] = TagCandidate(eTask[i]))
    /\ [][\A i \in 1..Len(eTask) :
            (/\ TagWiderThanTiers(eTask[i])
             /\ eTask[i].pc = "sniff"
             /\ eTask[i].idx = 1
             /\ eTask'[i].pc # "sniff"
             /\ eTask'[i].dims = parseEfgDimensions(eTask[i].cur))
            => /\ eTask'[i].up = ReturnedUrl(eTask[i].result, eTask'[i].dims)
               /\ eTask'[i].idx = 1
               /\ eItems'[i].url = eTask[i].result]_vars

C13_Witness ==
    \E i \in 1..Len(eTask) :
        /\ TagWiderThanTiers(eTask[i])
        /\ eTask[i].idx = 1
        /\ eTask[i].up.state = "url"
        /\ eTask[i].up.dims = parseEfgDimensions(eTask[i].cur)
        /\ eTask[i].up.url = buildCandidateUrl(eTask[i].cur, TagCandidate(eTask[i]))
        /\ eItems[i].url = eTask[i].up.url

CandidateUrl(t, k) == buildCandidateUrl(t.cur, t.cands[k])

\* C14 as stated: within one tryUpgradeSize call no candidate URL is probed
\* twice: the URL being probed differs from the URL of every candidate probed
\* before it.
C14_NoRepeatedProbe ==
    \A i \in 1..Len(eTask) :
        eTask[i].pc \in {"head", "get"} =>
            \A k \in 1..(eTask[i].idx - 1) :
                CandidateUrl(eTask[i], k) # eTask[i].req.url

\* C15 as stated: within one tryUpgradeSize call the sniffer is sent at most
\* once to any post-redirect URL: a probe that resolved to a URL already
\* sniffed for another candidate is not sniffed again.
C15_NoRepeatedSniff ==
    \A i \in 1..Len(eTask) :
        eTask[i].pc = "sniff" => eTask[i].result \notin eTask[i].redirects

\* =========================================================== enrichMediaItems
\* C16: enrichMediaItems never raises, whatever the items and whatever the
\* network answers: no callback rejects, the call does not reject, and when
\* it has returned every item, image or video, has had its byte-size lookup
\* (the file-size HEAD is the last request of its task, unless its url is no
\* URL at all), a failed lookup leaving filesize = 0.
C16_NeverRaises ==
    /\ ePc # "rejected"
    /\ \A i \in 1..Len(eTask) : eTask[i].pc # "raised"
    /\ ePc = "done" =>
        \A i \in 1..Len(eTask) :
            /\ eTask[i].pc = "done"
            /\ eTask[i].seen # "none"
            /\ eItems[i].url.ok => (eTask[i].req.kind = "size"
                                    /\ eTask[i].req.url = eItems[i].url)
            /\ eTask[i].seen # "200" => eItems[i].filesize = 0
            /\ eItems[i].filesize >= 0

C16_Witness ==
    /\ ePc = "done"
    /\ Len(eTask) = 2
    /\ eItems[1].type = "image" /\ eTask[1].seen = "transport" /\ eItems[1].filesize = 0
    /\ eItems[2].type = "video" /\ eTask[2].seen = "404" /\ eItems[2].filesize = 0

\* C17: the items of a call are processed concurrently and share nothing:
\* a step that changes an item or a task changes the item and the task of one
\* index only; an item is never touched once its task is done; and the call
\* has returned only when every task is done.
C17_IndependentTasks ==
    /\ [](ePc = "done" => \A i \in 1..Len(eTask) : eTask[i].pc = "done")
    /\ [][ePc = "running" =>
            \A i \in 1..Len(eTask) :
                (eItems'[i] # eItems[i] \/ eTask'[i] # eTask[i]) =>
                    /\ eTask[i].pc # "done"
                    /\ eTask'[i] # eTask[i]
                    /\ \A j \in 1..Len(eTask) :
                         j # i => (eItems'[j] = eItems[j] /\ eTask'[j] = eTask[j])]_vars

\* both items' requests are in flight at once, and the first item's task has
\* run to its end, its url upgraded, while the second still awaits its answer
C17_Witness ==
    /\ ePc = "running"
    /\ Len(eTask) = 2
    /\ eTask[1].pc = "done"
    /\ eTask[1].up.state = "url"
    /\ eItems[1].url # eIn[1].url
    /\ eTask[2].pc = "size"
    /\ eItems[2] = eIn[2]

\* C18 as stated: once an image item's task is past its dimension probe, and
\* the size of the asset at its final url was verified (by the upgrade engine
\* when it returned that url, or by the probe of the final url), width and
\* height are a size sniffed there and not what the API had reported; when
\* nothing was verified they are the best effort left: the size the item came
\* with or, lacking one, the size in the size token of its url.
C18_DimensionsReflectAsset ==
    \A i \in 1..Len(eTask) :
        (eItems[i].type = "image" /\ eTask[i].pc \in {"size", "done"}) =>
            LET it  == eItems[i]
                d   == eTask[i].dims
                up  == eTask[i].up
                inf == inferDimensionsFromUrl(it.url)
            IN  /\ d # NoDims => (it.width = d.w /\ it.height = d.h)
                /\ (d = NoDims /\ up.state = "url" /\ up.dims # NoDims)
                       => (it.width = up.dims.w /\ it.height = up.dims.h)
                /\ (d = NoDims /\ ~(up.state = "url" /\ up.dims # NoDims))
                       => \/ (it.width = eIn[i].width /\ it.height = eIn[i].height)
                          \/ (inf # NoDims /\ it.width = inf.w /\ it.height = inf.h)

(***************************************************************************)
(* The shape normalizer of lib/instagram.ts: extractShortcodeMedia finds   *)
(* the media node inside a parsed JSON blob, extractFromMediaNode flattens *)
(* it into items.  Both are pure; the specification draws one input and    *)
(* applies the function to it.                                             *)
(***************************************************************************)

\* a JSON value found at a nesting path: missing, null, a falsy scalar, or
\* the object stored there (named after the path that holds it)
Truthy(v) == v \notin {"undefined", Null, "0"}

\* the values blob.items can have: not an array, or an array whose elements
\* are null or the object "items[0]" / "items[1]"
NotArray == [isArray |-> FALSE, elems |-> <<>>]
Array(elems) == [isArray |-> TRUE, elems |-> elems]
ItemsValues ==
    {NotArray, Array(<<>>), Array(<<Null>>), Array(<<"items[0]">>),
     Array(<<Null, "items[1]">>), Array(<<"items[0]", "items[1]">>)}

\* the blobs: each of the seven nesting paths holds a value of its own
Slot(name) == {"undefined", Null, "0", name}
Blobs ==
    [graphql : Slot("graphql.shortcode_media"),
     data : Slot("data.shortcode_media"),
     gql_data : Slot("gql_data.shortcode_media"),
     context : Slot("context.media"),
     items : ItemsValues,
     pageData : Slot("props.pageProps.data.shortcode_media"),
     pageGraphql : Slot("props.pageProps.graphql.shortcode_media")]

\* extractShortcodeMedia: the first path whose test passes decides the result
extractShortcodeMedia(blob) ==
    IF Truthy(blob.graphql) THEN blob.graphql
    ELSE IF Truthy(blob.data) THEN blob.data
    ELSE IF Truthy(blob.gql_data) THEN blob.gql_data
    ELSE IF Truthy(blob.context) THEN blob.context
    ELSE IF blob.items.isArray /\ Len(blob.items.elems) > 0 THEN blob.items.elems[1]
    ELSE IF Truthy(blob.pageData) THEN blob.pageData
    ELSE IF Truthy(blob.pageGraphql) THEN blob.pageGraphql
    ELSE Null

\* the function is called on a blob
Locate ==
    /\ shapePc = "blob"
    /\ shapePc' = "located"
    /\ shapeOut' = extractShortcodeMedia(shapeIn)
    /\ UNCHANGED <<shapeIn, notShape>>

\* ---- extractFromMediaNode ----

MaxChildren == 2    \* children of a carousel node

\* a field of a JSON object: the value stored, or alt when the field is
\* missing or null (the code's c?.f ?? alt)
Get(r, f, alt) == IF f \in r.has THEN r[f] ELSE alt

\* raw resolution candidates as the upstream names their fields
RawCandidate(has, src, w, h) ==
    [has |-> has, src |-> src, url |-> src, width |-> w, height |-> h,
     config_width |-> w, config_height |-> h]
CandNull == RawCandidate({}, "", 0, 0)
CandA == RawCandidate({"src", "width", "height"}, "a.jpg", 640, 640)
CandB == RawCandidate({"url", "config_width", "config_height"}, "b.jpg", 1080, 1350)
CandV == RawCandidate({"src", "width", "height"}, "v.mp4", 720, 1280)
CandV2 == RawCandidate({"url", "width", "height"}, "v2.mp4", 480, 854)

\* normalizeCandidates: unify the field names, drop candidates without a URL
normalizeCandidates(candidates) ==
    SelectSeq([i \in 1..Len(candidates) |->
                  LET c == candidates[i] IN
                  [src |-> Get(c, "src", Get(c, "url", "")),
                   width |-> Get(c, "width", Get(c, "config_width", 0)),
                   height |-> Get(c, "height", Get(c, "config_height", 0))]],
              LAMBDA c : c.src # "")

NoCandidate == [src |-> "", width |-> 0, height |-> 0]    \* null

\* candidates.reduce((best, cur) => pick(cur, best) ? cur : best)
RECURSIVE ReduceFrom(_, _, _, _)
ReduceFrom(candidates, i, best, larger) ==
    IF i > Len(candidates) THEN best
    ELSE LET cur == candidates[i]
             a == cur.width * cur.height
             b == best.width * best.height
             take == IF larger THEN a > b ELSE a < b
         IN  ReduceFrom(candidates, i + 1, IF take THEN cur ELSE best, larger)

\* mutant: the first candidate is taken, whatever its area
pickLargest_First(candidates) ==
    IF Len(candidates) = 0 THEN NoCandidate ELSE candidates[1]

pickLargest(candidates) ==
    IF Len(candidates) = 0 THEN NoCandidate
    ELSE ReduceFrom(candidates, 2, candidates[1], TRUE)

pickSmallest(candidates) ==
    IF Len(candidates) = 0 THEN NoCandidate
    ELSE ReduceFrom(candidates, 2, candidates[1], FALSE)

\* a or, when a is missing, b (a ?? b on strings; "undefined" is missing)
Or(a, b) == IF a # "undefined" THEN a ELSE b

\* the width carried by a video URL's efg tag (decodeEfgTag + /C\d\.(\d{3,4})\./)
EfgVideoWidth(url) == IF url = "v720.mp4" THEN 720 ELSE 0

\* inferVideoDimensionsFromUrl(url, aspect): NoDims for null
inferVideoDimensionsFromUrl(url, aspect) ==
    LET width == EfgVideoWidth(url) IN
    IF width = 0 \/ aspect.w = 0 \/ aspect.h = 0 THEN NoDims
    ELSE LET height == Round(width * aspect.h, aspect.w) IN
         IF height = 0 THEN NoDims ELSE Dims(width, height)

\* list-valued fields: missing (NotArray) or an array
ListOf(value) == IF value.isArray THEN value.elems ELSE <<>>

\* a media node without children
LeafNodes ==
    [kind : {"leaf"},
     is_video : BOOLEAN,
     typename : {"GraphImage", "GraphVideo"},
     media_type : {1, 2},
     display_resources : {NotArray, Array(<<>>), Array(<<CandNull, CandA, CandB>>),
                          Array(<<CandB, CandA>>)},
     display_candidates : {NotArray, Array(<<CandA>>)},
     image_versions2 : {NotArray, Array(<<CandB>>)},
     thumbnail_src : {"undefined", "t.jpg"},
     display_url : {"undefined", "d.jpg"},
     video_resources : {NotArray, Array(<<>>), Array(<<CandV2, CandNull, CandV>>)},
     video_versions : {NotArray, Array(<<CandV2>>)},
     video_url : {"undefined", "u.mp4", "v720.mp4"},
     dimensions : {NoDims, Dims(1080, 1350)}]

MediaItem(type, url, thumbnail, w, h) ==
    [type |-> type, url |-> url, thumbnail |-> thumbnail, width |-> w,
     height |-> h, filesize |-> 0]

\* the first of the list fields that is present (a ?? b ?? c ?? [])
FirstList(a, b, c) ==
    IF a.isArray THEN a.elems ELSE IF b.isArray THEN b.elems ELSE ListOf(c)

\* mutant: only the boolean flag makes a node a video
isVideo_FlagOnly(node) == node.is_video

\* line 162: Boolean(node.is_video) || node.__typename === "GraphVideo" ||
\* node.media_type === 2
isVideo(node) == node.is_video \/ node.typename = "GraphVideo" \/ node.media_type = 2

\* extractFromMediaNode on a node without children
extractLeaf(node) ==
    LET candidates == normalizeCandidates(
            FirstList(node.display_resources, node.display_candidates, node.image_versions2))
        bestImage == pickLargest(candidates)
        smallest == pickSmallest(candidates)
        thumbnail ==
            IF smallest # NoCandidate THEN smallest.src
            ELSE Or(node.thumbnail_src, Or(node.display_url, ""))
        videoCandidates == normalizeCandidates(
            FirstList(node.video_resources, node.video_versions, NotArray))
        bestVideo == pickLargest(videoCandidates)
        vurl == IF bestVideo # NoCandidate THEN bestVideo.src ELSE Or(node.video_url, "")
        truthy(c) == c # NoCandidate /\ c.width # 0 /\ c.height # 0
        aspectSource ==
            IF truthy(bestVideo) THEN Dims(bestVideo.width, bestVideo.height)
            ELSE IF truthy(bestImage) THEN Dims(bestImage.width, bestImage.height)
            ELSE node.dimensions
        inferred ==
            IF bestVideo = NoCandidate /\ aspectSource # NoDims
            THEN inferVideoDimensionsFromUrl(vurl, aspectSource) ELSE NoDims
        vdims ==
            IF inferred # NoDims THEN inferred
            ELSE IF bestVideo # NoCandidate THEN Dims(bestVideo.width, bestVideo.height)
            ELSE IF bestImage # NoCandidate THEN Dims(bestImage.width, bestImage.height)
            ELSE node.dimensions
        iurl == IF bestImage # NoCandidate THEN bestImage.src ELSE Or(node.display_url, "")
        idims ==
            IF bestImage # NoCandidate THEN Dims(bestImage.width, bestImage.height)
            ELSE node.dimensions
    IN  IF isVideo(node)
        THEN IF vurl = "" THEN <<>>
             ELSE <<MediaItem("video", vurl, thumbnail, vdims.w, vdims.h)>>
        ELSE IF iurl = "" THEN <<>>
             ELSE <<MediaItem("image", iurl, thumbnail, idims.w, idims.h)>>

\* ---- nodes with children ----

NullNode == [kind |-> "null"]                   \* a null / missing node
Edge(node) == [kind |-> "edge", node |-> node]  \* { node: ... }

BaseLeaf ==
    [kind |-> "leaf", is_video |-> FALSE, typename |-> "GraphImage", media_type |-> 1,
     display_resources |-> NotArray, display_candidates |-> NotArray,
     image_versions2 |-> NotArray, thumbnail_src |-> "undefined",
     display_url |-> "undefined", video_resources |-> NotArray,
     video_versions |-> NotArray, video_url |-> "undefined", dimensions |-> NoDims]
ImageLeaf == [BaseLeaf EXCEPT !.display_url = "d.jpg"]
ImageLeafB == [BaseLeaf EXCEPT !.display_resources = Array(<<CandB, CandA>>)]
VideoLeaf == [BaseLeaf EXCEPT !.is_video = TRUE, !.video_url = "u.mp4"]
VideoNoUrl == [BaseLeaf EXCEPT !.media_type = 2, !.display_url = "d.jpg"]

\* what a carousel's child list can hold
InnerKids == {ImageLeafB, VideoNoUrl}
Kids == {ImageLeaf, VideoLeaf, BaseLeaf, VideoNoUrl, NullNode}

\* a carousel in the GraphQL shape (edge_sidecar_to_children.edges), in the
\* private-API shape (carousel_media), or carrying both lists
Carousel(shape, kids, nullEdges) ==
    LET edges == [i \in 1..Len(kids) |->
                     IF kids[i] = NullNode /\ nullEdges THEN NullNode
                     ELSE Edge(kids[i])]
    IN  [kind |-> "carousel",
         edges |-> IF shape = "carousel_media" THEN NotArray ELSE Array(edges),
         carousel_media |-> IF shape = "edges" THEN NotArray
                            ELSE IF shape = "both" THEN Array(<<VideoLeaf>>)
                            ELSE Array(kids)]

InnerCarousels ==
    {Carousel(shape, kids, FALSE) :
        shape \in {"edges", "carousel_media"}, kids \in SeqsUpTo(InnerKids, MaxChildren)}

Carousels ==
    {Carousel(shape, kids, nullEdges) :
        shape \in {"edges", "carousel_media", "both"},
        kids \in SeqsUpTo(Kids \cup InnerCarousels, MaxChildren),
        nullEdges \in BOOLEAN}

NodeInputs == LeafNodes \cup Carousels \cup {NullNode}

\* the outcome of a call: the list returned, or a TypeError raised
ReturnedList(list) == [raised |-> FALSE, items |-> list]
RaisedError == [raised |-> TRUE, items |-> <<>>]

\* flatMap appends each child's items in order; an exception ends the call
JoinResults_Reversed(a, b) ==
    IF a.raised \/ b.raised THEN RaisedError ELSE ReturnedList(b.items \o a.items)

JoinResults(a, b) ==
    IF a.raised \/ b.raised THEN RaisedError ELSE ReturnedList(a.items \o b.items)

RECURSIVE extractFromMediaNodeTree(_)
RECURSIVE FlatMapEdges(_)
RECURSIVE FlatMapChildren(_)

\* edges.flatMap((edge) => extractFromMediaNode(edge.node))
FlatMapEdges(edges) ==
    IF edges = <<>> THEN ReturnedList(<<>>)
    ELSE LET edge == Head(edges)
             first == IF edge = NullNode THEN RaisedError
                      ELSE extractFromMediaNodeTree(edge.node)
         IN  IF first.raised THEN RaisedError
             ELSE JoinResults(first, FlatMapEdges(Tail(edges)))

\* carousel_media.flatMap((child) => extractFromMediaNode(child))
FlatMapChildren(children) ==
    IF children = <<>> THEN ReturnedList(<<>>)
    ELSE LET first == extractFromMediaNodeTree(Head(children))
         IN  IF first.raised THEN RaisedError
             ELSE JoinResults(first, FlatMapChildren(Tail(children)))

\* extractFromMediaNode on any node
extractFromMediaNodeTree(node) ==
    IF node.kind = "null" THEN ReturnedList(<<>>)
    ELSE IF node.kind = "carousel" /\ node.edges.isArray THEN FlatMapEdges(node.edges.elems)
    ELSE IF node.kind = "carousel" /\ node.carousel_media.isArray
         THEN FlatMapChildren(node.carousel_media.elems)
    ELSE ReturnedList(extractLeaf(node))

\* the function is called on a node
Extract ==
    /\ shapePc = "node"
    /\ shapePc' = "extracted"
    /\ shapeOut' = extractFromMediaNodeTree(shapeIn)
    /\ UNCHANGED <<shapeIn, notShape>>

(***************************************************************************)
(* The dimension sniffer of lib/media.ts: parseImageDimensions reads the   *)
(* width and height out of the first bytes of a PNG or JPEG file.  A       *)
(* buffer is a sequence of bytes; buffer[i] of the code is Byte(buffer, i).*)
(***************************************************************************)

MaxSegments == 2    \* marker segments after a JPEG's start-of-image marker

U16(n) == <<n \div 256, n % 256>>
U32(n) == <<0, 0>> \o U16(n)

\* ---- the buffers: PNG-like and JPEG-like data, whole or cut short
PngSignature == <<137, 80, 78, 71, 13, 10, 26, 10>>      \* 89 50 4e 47 0d 0a 1a 0a
GifSignature == <<71, 73, 70, 56, 57, 97, 1, 0>>         \* "GIF89a.."
IHDR == <<73, 72, 68, 82>>
IDAT == <<73, 68, 65, 84>>
IHDRHighBits == <<201, 200, 196, 210>>                   \* "IHDR" with bit 7 set

PngBytes(in) ==
    in.signature \o U32(13) \o in.type \o U32(in.w) \o U32(in.h) \o <<8, 6>>

\* the pieces a JPEG-like buffer is made of, after ff d8
App0 == <<255, 224>> \o U16(4) \o <<1, 2>>               \* ff e0, 2 payload bytes
Dht == <<255, 196>> \o U16(2)                            \* ff c4: not a frame marker
Sof(marker, h, w) == <<255, marker>> \o U16(8) \o <<8>> \o U16(h) \o U16(w) \o <<3>>
Sos == <<255, 218>>                                      \* ff da
Eoi == <<255, 217>>                                      \* ff d9
BadLength == <<255, 225>> \o U16(1)                      \* declared length below 2
Junk == <<0>>                                            \* a byte that is no marker

Pieces ==
    {App0, Dht, Sof(192, 1350, 1080), Sof(194, 2, 3), Sof(192, 4, 0),
     Sos, Eoi, BadLength, Junk}

RECURSIVE Concat(_)
Concat(seqs) == IF seqs = <<>> THEN <<>> ELSE Head(seqs) \o Concat(Tail(seqs))

JpegBytes(in) == <<255, 216>> \o Concat(in.pieces)

Whole(in) == IF in.format = "png" THEN PngBytes(in) ELSE JpegBytes(in)

\* the bytes passed in: the first in.length bytes of the data
Buffer(in) == SubSeq(Whole(in), 1, in.length)

PngInputs ==
    {in \in [format : {"png"}, signature : {PngSignature, GifSignature},
             type : {IHDR, IDAT, IHDRHighBits}, w : {0, 1080}, h : {0, 1350},
             pieces : {<<>>}, length : 0..26] : TRUE}

JpegInputs ==
    {in \in [format : {"jpeg"}, signature : {<<>>}, type : {<<>>}, w : {0}, h : {0},
             pieces : SeqsUpTo(Pieces, MaxSegments), length : 0..(2 + 10 * MaxSegments)] :
        in.length <= Len(JpegBytes(in))}

BufferInputs == PngInputs \cup JpegInputs

\* ---- the parser
Byte(buffer, i) == buffer[i + 1]

\* what a parser gives: null, a size, or a RangeError raised by a read
\* outside the buffer
ParsedNull == [kind |-> "null", width |-> 0, height |-> 0]
Parsed(w, h) == [kind |-> "dims", width |-> w, height |-> h]
RangeError == [kind |-> "raised", width |-> 0, height |-> 0]

\* width && height ? { width, height } : null
SizeOrNull(w, h) == IF w # 0 /\ h # 0 THEN Parsed(w, h) ELSE ParsedNull

InRange(buffer, offset, n) == offset >= 0 /\ offset + n <= Len(buffer)

readUInt16BE(buffer, offset) == Byte(buffer, offset) * 256 + Byte(buffer, offset + 1)

readUInt32BE(buffer, offset) ==
    readUInt16BE(buffer, offset) * 65536 + readUInt16BE(buffer, offset + 2)

\* buffer.slice(a, b).toString("ascii"): bit 7 of every byte is dropped
Ascii(bytes) == [i \in 1..Len(bytes) |-> bytes[i] % 128]

parsePngDimensions(buffer) ==
    IF Len(buffer) < 24 THEN ParsedNull
    ELSE IF SubSeq(buffer, 1, 8) # PngSignature THEN ParsedNull
    ELSE IF Ascii(SubSeq(buffer, 13, 16)) # IHDR THEN ParsedNull
    ELSE SizeOrNull(readUInt32BE(buffer, 16), readUInt32BE(buffer, 20))

isSof(marker) ==
    \/ marker >= 192 /\ marker <= 195
    \/ marker >= 197 /\ marker <= 199
    \/ marker >= 201 /\ marker <= 203
    \/ marker >= 205 /\ marker <= 207

\* mutant: the frame header is read without the bound check of line 274
SofFits_Unchecked(buffer, offset) == TRUE

\* line 274: if (offset + 7 > buffer.length) break
SofFits(buffer, offset) == ~(offset + 7 > Len(buffer))

\* the while loop of parseJpegDimensions from one value of offset on
RECURSIVE JpegLoop(_, _)
JpegLoop(buffer, offset) ==
    IF ~(offset + 4 < Len(buffer)) THEN ParsedNull
    ELSE IF Byte(buffer, offset) # 255 THEN JpegLoop(buffer, offset + 1)
    ELSE LET marker == Byte(buffer, offset + 1)
             at == offset + 2
         IN  IF marker = 217 \/ marker = 218 THEN ParsedNull
             ELSE IF at + 2 > Len(buffer) THEN ParsedNull
             ELSE LET length == readUInt16BE(buffer, at) IN
                  IF length < 2 THEN ParsedNull
                  ELSE IF isSof(marker)
                  THEN IF ~SofFits(buffer, at) THEN ParsedNull
                       ELSE IF ~InRange(buffer, at + 3, 4) THEN RangeError
                       ELSE SizeOrNull(readUInt16BE(buffer, at + 5),
                                       readUInt16BE(buffer, at + 3))
                  ELSE JpegLoop(buffer, at + length)

parseJpegDimensions(buffer) ==
    IF Byte(buffer, 0) # 255 \/ Byte(buffer, 1) # 216 THEN ParsedNull
    ELSE JpegLoop(buffer, 2)

\* parsePngDimensions(buffer) ?? parseJpegDimensions(buffer)
parseImageDimensions(buffer) ==
    IF Len(buffer) < 10 THEN ParsedNull
    ELSE LET png == parsePngDimensions(buffer) IN
         IF png # ParsedNull THEN png ELSE parseJpegDimensions(buffer)

\* the function is called on a buffer
ParseBuffer ==
    /\ shapePc = "buffer"
    /\ shapePc' = "parsed"
    /\ shapeOut' = parseImageDimensions(Buffer(shapeIn))
    /\ UNCHANGED <<shapeIn, notShape>>

InitShape ==
    /\ IdleCascade /\ IdleHost /\ IdleRoute /\ IdleEnrich /\ IdlePreview /\ IdlePage
    /\ shapeOut = "undefined"
    /\ \/ shapePc = "blob" /\ shapeIn \in Blobs
       \/ shapePc = "node" /\ shapeIn \in NodeInputs
       \/ shapePc = "buffer" /\ shapeIn \in BufferInputs

NextShape ==
    \/ Locate
    \/ Extract
    \/ ParseBuffer

SpecShape == InitShape /\ [][NextShape]_vars


\* ------------------------------------------ part_009: extractBalancedJson
\* A script's text is a sequence of characters: the four delimiters, the
\* double quote and the backslash (a delimiter of the other kind stands for
\* any other character).
MaxSource == 5    \* characters of a source text

Quote == "\""
Backslash == "\\"
SourceChars == {"{", "}", "[", "]", Quote, Backslash}

Sources == UNION {[1..n -> SourceChars] : n \in 0..MaxSource}

\* the calls extractJsonFromHtml makes: indexOf("{", ...) gives -1 or the
\* index of a "{"; a "[" start and an index past the end are included
ScanInputs ==
    {[source |-> src, startIndex |-> i] : src \in Sources, i \in {0, 1}}
    \cup {[source |-> src, startIndex |-> i] :
            src \in [1..2 -> SourceChars], i \in {-1, MaxSource}}

\* source[i] for a 0-based i; "undefined" outside the string
CharAt(source, i) == IF i >= 0 /\ i < Len(source) THEN source[i + 1] ELSE "undefined"

\* source.slice(from, to)
Slice(source, from, to) == SubSeq(source, from + 1, to)

NoText == [found |-> FALSE, text |-> <<>>]    \* null
Text(chars) == [found |-> TRUE, text |-> chars]

\* mutant: a backslash inside a string escapes nothing
EscapeStarts_Never(char) == FALSE

\* line 449: else if (char === "\\") { escape = true; }
EscapeStarts(char) == char = Backslash

\* lines 446-458: the loop from index i on, with the loop's variables
RECURSIVE ScanLoop(_, _, _, _, _, _)
ScanLoop(source, startIndex, i, depth, inString, escape) ==
    LET openChar  == CharAt(source, startIndex)
        closeChar == IF openChar = "[" THEN "]" ELSE "}"
        char      == CharAt(source, i)
        depth1    == IF char = openChar THEN depth + 1 ELSE depth
        depth2    == IF char = closeChar THEN depth1 - 1 ELSE depth1
    IN  IF ~(i < Len(source)) THEN NoText
        ELSE IF inString
        THEN IF escape THEN ScanLoop(source, startIndex, i + 1, depth, TRUE, FALSE)
             ELSE IF EscapeStarts(char)
                  THEN ScanLoop(source, startIndex, i + 1, depth, TRUE, TRUE)
             ELSE IF char = Quote
                  THEN ScanLoop(source, startIndex, i + 1, depth, FALSE, escape)
             ELSE ScanLoop(source, startIndex, i + 1, depth, TRUE, escape)
        ELSE IF char = Quote THEN ScanLoop(source, startIndex, i + 1, depth, TRUE, escape)
        ELSE IF depth2 = 0 THEN Text(Slice(source, startIndex, i + 1))
        ELSE ScanLoop(source, startIndex, i + 1, depth2, FALSE, escape)

\* lines 438-460
extractBalancedJson(source, startIndex) ==
    IF startIndex < 0 THEN NoText
    ELSE ScanLoop(source, startIndex, startIndex, 0, FALSE, FALSE)

\* one call of extractBalancedJson
Scan ==
    /\ shapePc = "source"
    /\ shapePc' = "scanned"
    /\ shapeOut' = extractBalancedJson(shapeIn.source, shapeIn.startIndex)
    /\ UNCHANGED <<shapeIn, notShape>>

InitScan ==
    /\ IdleCascade /\ IdleHost /\ IdleRoute /\ IdleEnrich /\ IdlePreview /\ IdlePage
    /\ shapeOut = "undefined"
    /\ shapePc = "source"
    /\ shapeIn \in ScanInputs

NextScan == Scan

SpecScan == InitScan /\ [][NextScan]_vars


\* --------------------------- app/page.tsx, components: the page component
\* The user types, submits, downloads and starts over; each handler runs to
\* its await, and its continuation runs when the response arrives.  What an
\* element lets through is decided by the props of the last render.
MaxRequests == 4    \* requests the page sends in one session

PostText == "https://www.instagram.com/p/Cabc123/"
ReelText == " https://instagram.com/reel/x_Y-9 "
UrlTexts == {"", PostText, ReelText, "instagram"}

\* url-input.tsx 3, 14-16
hasValue(value) == value # ""
isValid(value) == ~hasValue(value) \/ value \in {PostText, ReelText}
canSubmit(value, disabled) == hasValue(value) /\ isValid(value) /\ ~disabled

\* what /api/preview answers: 200 with its items (never none), an error
\* body with a non-2xx status, or nothing that fetch or res.json() accepts
PreviewAnswers ==
    {[kind |-> "ok", count |-> n] : n \in 1..MaxItems}
        \cup {[kind |-> "error", count |-> 0], [kind |-> "failed", count |-> 0]}

\* what /api/download answers
DownloadAnswers == {"ok", "error", "failed"}

Awaiting(kind, id) == [kind |-> kind, id |-> id]

\* url-input.tsx 27, page.tsx 105: onChange={setUrl}; the input is never disabled
TypeUrl ==
    /\ \E value \in UrlTexts :
        /\ value # uiUrl
        /\ uiUrl' = value
    /\ UNCHANGED <<uiItems, uiMeta, uiStatus, uiError, uiPending, uiIssued>>
    /\ UNCHANGED notPage

\* page.tsx 107: disabled={status === "fetching"}
SubmitDisabled == uiStatus = "fetching"

\* page.tsx 18-29, url-input.tsx 28-36: the button or the Enter key submits;
\* handleFetch runs up to its await of fetch("/api/preview")
handleFetch ==
    /\ canSubmit(uiUrl, SubmitDisabled)
    /\ uiIssued < MaxRequests
    /\ uiStatus' = "fetching"
    /\ uiError' = ""
    /\ uiItems' = NoItems
    /\ uiMeta' = 0
    /\ uiIssued' = uiIssued + 1
    /\ uiPending' = uiPending \cup {Awaiting("preview", uiIssued + 1)}
    /\ UNCHANGED uiUrl
    /\ UNCHANGED notPage

\* page.tsx 30-42: the response of a preview request arrives
FetchSettled ==
    /\ \E req \in uiPending : \E answer \in PreviewAnswers :
        /\ req.kind = "preview"
        /\ uiPending' = uiPending \ {req}
        /\ IF answer.kind = "ok"
           THEN /\ uiItems' = [from |-> req.id, count |-> answer.count]
                /\ uiMeta' = req.id
                /\ uiStatus' = "ready"
                /\ UNCHANGED uiError
           ELSE /\ uiStatus' = "error"
                /\ uiError' = IF answer.kind = "error" THEN "Something went wrong."
                              ELSE "Could not reach the server. Check your connection or try again."
                /\ UNCHANGED <<uiItems, uiMeta>>
    /\ UNCHANGED <<uiUrl, uiIssued>>
    /\ UNCHANGED notPage

\* page.tsx 117-124, download-buttons.tsx 11, 18: the button is rendered
\* with items and enabled in status ready
DownloadEnabled == uiItems.count > 0 /\ uiStatus = "ready"

\* page.tsx 45-54: handleDownload runs up to its await of fetch("/api/download")
handleDownload ==
    /\ DownloadEnabled
    /\ uiIssued < MaxRequests
    /\ uiStatus' = "downloading"
    /\ uiError' = ""
    /\ uiIssued' = uiIssued + 1
    /\ uiPending' = uiPending \cup {Awaiting("download", uiIssued + 1)}
    /\ UNCHANGED <<uiUrl, uiItems, uiMeta>>
    /\ UNCHANGED notPage

\* page.tsx 56-79: the response of a download request arrives
DownloadSettled ==
    /\ \E req \in uiPending : \E answer \in DownloadAnswers :
        /\ req.kind = "download"
        /\ uiPending' = uiPending \ {req}
        /\ IF answer = "ok"
           THEN uiStatus' = "ready" /\ UNCHANGED uiError
           ELSE /\ uiStatus' = "error"
                /\ uiError' = "Download failed."
    /\ UNCHANGED <<uiUrl, uiItems, uiMeta, uiIssued>>
    /\ UNCHANGED notPage

\* page.tsx 82-88, 117-130: "Start over" is rendered with items, never disabled
handleReset ==
    /\ uiItems.count > 0
    /\ uiUrl' = ""
    /\ uiItems' = NoItems
    /\ uiMeta' = 0
    /\ uiStatus' = "idle"
    /\ uiError' = ""
    /\ UNCHANGED <<uiPending, uiIssued>>
    /\ UNCHANGED notPage

InitPage ==
    IdleCascade /\ IdleHost /\ IdleRoute /\ IdleEnrich /\ IdleShape /\ IdlePreview /\ IdlePage

NextPage ==
    \/ TypeUrl
    \/ handleFetch
    \/ FetchSettled
    \/ handleDownload
    \/ DownloadSettled
    \/ handleReset

SpecPage == InitPage /\ [][NextPage]_vars

\* the value each of the seven nesting paths holds, in the order of the checks
PathValues(blob) ==
    <<blob.graphql, blob.data, blob.gql_data, blob.context,
      IF blob.items.isArray /\ Len(blob.items.elems) > 0
          THEN blob.items.elems[1] ELSE "undefined",
      blob.pageData, blob.pageGraphql>>

\* C19: extractShortcodeMedia returns the node of the first of the seven
\* nesting paths that holds a non-null node, never a later path's node, and
\* returns null only when no path holds one.
C19_FirstNonNullMatch ==
    shapePc = "located" =>
        LET values == PathValues(shapeIn)
            holding == {k \in 1..7 : Truthy(values[k])}
        IN  IF holding = {} THEN shapeOut = Null
            ELSE \E k \in holding :
                    /\ \A j \in holding : k <= j
                    /\ shapeOut = values[k]

\* the children of a node, in the order they are listed, in the shape the
\* node carries (the GraphQL list where both are present)
ChildrenOf(node) ==
    IF node.kind # "carousel" THEN <<>>
    ELSE IF node.edges.isArray
         THEN [i \in 1..Len(node.edges.elems) |->
                  LET edge == node.edges.elems[i] IN
                  IF edge = NullNode THEN NullNode ELSE edge.node]
    ELSE node.carousel_media.elems

\* the leaves below a node, left to right, through nested carousels
RECURSIVE LeavesOf(_)
RECURSIVE LeavesOfAll(_)
LeavesOf(node) ==
    IF node.kind = "leaf" THEN <<node>>
    ELSE IF node.kind = "carousel" THEN LeavesOfAll(ChildrenOf(node))
    ELSE <<>>
LeavesOfAll(nodes) ==
    IF nodes = <<>> THEN <<>> ELSE LeavesOf(Head(nodes)) \o LeavesOfAll(Tail(nodes))

\* a leaf whose asset URL resolves: the item made of it alone exists
Resolvable(leaf) == extractLeaf(leaf) # <<>>

HasVideoSignal(node) ==
    node.is_video \/ node.typename = "GraphVideo" \/ node.media_type = 2

\* C20: whenever extractFromMediaNode returns, its list holds exactly one
\* item per leaf with a resolvable asset URL, in child order, through both
\* children shapes and nested carousels: no resolvable leaf is dropped, no
\* item is fabricated, and a single image node gives exactly one image item.
C20_OneItemPerResolvableLeaf ==
    (shapePc = "extracted" /\ ~shapeOut.raised) =>
        LET resolvable == SelectSeq(LeavesOf(shapeIn), Resolvable)
            list == shapeOut.items
        IN  /\ Len(list) = Len(resolvable)
            /\ \A i \in 1..Len(list) : <<list[i]>> = extractLeaf(resolvable[i])
            /\ \A i \in 1..Len(list) :
                   list[i].type = IF HasVideoSignal(resolvable[i]) THEN "video" ELSE "image"
            /\ (shapeIn.kind = "leaf" /\ ~HasVideoSignal(shapeIn) /\ Resolvable(shapeIn))
                   => (Len(list) = 1 /\ list[1].type = "image")

\* a carousel with a nested carousel was flattened: an image and a video
\* item came out in child order and a child without a usable URL was left out
C20_Witness ==
    /\ shapePc = "extracted"
    /\ ~shapeOut.raised
    /\ shapeIn.kind = "carousel"
    /\ \E i \in 1..Len(ChildrenOf(shapeIn)) : ChildrenOf(shapeIn)[i].kind = "carousel"
    /\ Len(shapeOut.items) = 2
    /\ Len(LeavesOf(shapeIn)) = 3
    /\ shapeOut.items[1].type = "video"
    /\ shapeOut.items[2].type = "image"

\* C21: extractFromMediaNode never throws: whatever JSON value the node, its
\* children and its candidate fields hold, the call returns a list.
C21_NeverThrows ==
    shapePc = "extracted" => ~shapeOut.raised

BlockedAt(k) == got[k] \in {"401", "403"}
RefusedAt(k) == got[k] = "500"
TransportAt(k) == got[k] = "transport"
Exhausted == got[2] = "200" /\ got[3] = "200"

C24_EventuallyCompletes ==
    (pc # "call") ~> (pc = "done")

\* what a JPEG decoder finds in the pieces from byte offset on, when only the
\* first length bytes are there: junk bytes are passed over, a segment that
\* is no frame is skipped by its declared length, an end or scan marker or a
\* declared length below 2 ends the search, and the first frame header gives
\* the size if its height and width bytes are there
RECURSIVE FirstFrame(_, _, _)
FirstFrame(pieces, offset, length) ==
    IF pieces = <<>> \/ offset + 4 >= length THEN ParsedNull
    ELSE LET piece == Head(pieces) IN
         IF piece = Junk THEN FirstFrame(Tail(pieces), offset + 1, length)
         ELSE IF piece \in {Sos, Eoi, BadLength} THEN ParsedNull
         ELSE IF piece \in {App0, Dht}
         THEN IF offset + 4 > length THEN ParsedNull
              ELSE FirstFrame(Tail(pieces), offset + Len(piece), length)
         ELSE IF offset + 9 > length THEN ParsedNull
              ELSE SizeOrNull(piece[8] * 256 + piece[9], piece[6] * 256 + piece[7])

\* C25: parseImageDimensions is total: on every buffer it ends without a
\* read outside the buffer, gives null for data that is too short, cut short
\* or neither PNG nor JPEG, gives a size only with width > 0 and height > 0,
\* reads a PNG's size from its IHDR chunk, and in a JPEG skips the segments
\* that are no frame by their declared length and stops at the first frame
\* header or at an end / scan marker.
C25_SnifferTotal ==
    shapePc = "parsed" =>
        LET in == shapeIn
            out == shapeOut
        IN  /\ out.kind \in {"null", "dims"}
            /\ out.kind = "dims" => (out.width > 0 /\ out.height > 0)
            /\ in.length < 10 => out = ParsedNull
            /\ in.format = "png" =>
                   out = IF /\ in.length >= 24
                            /\ in.signature = PngSignature
                            /\ Ascii(in.type) = IHDR
                         THEN SizeOrNull(in.w, in.h)
                         ELSE ParsedNull
            /\ (in.format = "jpeg" /\ in.length >= 10) =>
                   out = FirstFrame(in.pieces, 2, in.length)

\* a JPEG whose frame header follows an application segment was sized
C25_Witness ==
    /\ shapePc = "parsed"
    /\ shapeIn.format = "jpeg"
    /\ shapeIn.pieces = <<App0, Sof(192, 1350, 1080)>>
    /\ shapeIn.length = 18
    /\ shapeOut = Parsed(1080, 1350)

\* a host name that is instagram.com or one of its subdomains
OnInstagram(hostname) ==
    \/ hostname = <<"instagram", ".", "com">>
    \/ EndsWith(hostname, <<".", "instagram", ".", "com">>)

\* C26: normalizePostUrl maps every input it accepts to
\* https://www.instagram.com/<p|reel|tv>/<shortcode>/ with the shortcode of
\* the path, and rejects every input that is not a URL, is not on
\* instagram.com, or has no /p/, /reel/ or /tv/ shortcode path.
C26_NormalizePostUrl ==
    pvPc = "direct" /\ pc # "call" =>
        LET n == normalizePostUrl(postUrl)
            parsed == ParseUrl(trim(postUrl))
            match == IF parsed.ok THEN PostPathMatch(parsed.pathname) ELSE None
            acceptable == parsed.ok /\ OnInstagram(parsed.hostname) /\ match.ok
        IN  /\ acceptable =>
                /\ n.throw = Null
                /\ norm.shortcode = match.shortcode
                /\ norm.url = Origin \o <<"/", match.type, "/", match.shortcode, "/">>
            /\ ~acceptable => (n.throw # Null /\ outcome.kind = "Error" /\ norm.url = <<>>)

\* a URL tryUpgradeSize has nothing to upgrade in: it does not parse, its
\* stp has no p<W>x<H> / s<W>x<H> token, or that token's W or H is 0
NothingToUpgrade(u) ==
    \/ ~u.ok
    \/ \A i \in 1..Len(u.stp) : ~IsSizeToken(u.stp[i])
    \/ \E i \in 1..Len(u.stp) :
          /\ IsSizeToken(u.stp[i])
          /\ \A j \in 1..(i - 1) : ~IsSizeToken(u.stp[j])
          /\ (u.stp[i].w = 0 \/ u.stp[i].h = 0)

\* C27: when the URL given to tryUpgradeSize does not parse, has no
\* size-constraint token in stp, or has one whose W or H is 0, tryUpgradeSize
\* returns null at once: no candidate is built and none of its requests
\* (HEAD, ranged GET, sniff) is ever issued.
C27_NullWithoutRequest ==
    \A i \in 1..Len(eTask) :
        (/\ eIn[i].type = "image"
         /\ eTask[i].pc \notin {"start", "legacy"}
         /\ NothingToUpgrade(eTask[i].cur)) =>
            /\ eTask[i].up = ReturnedNull
            /\ eTask[i].cands = <<>>
            /\ eTask[i].idx = 0
            /\ eTask[i].req.kind \notin {"head", "get", "sniff"}

\* an image whose size token has width 0 went through tryUpgradeSize
C27_Witness ==
    /\ ePc = "done"
    /\ Len(eIn) = 1
    /\ eIn[1].type = "image"
    /\ eIn[1].url.stp = <<SizeToken("p", 0, 1350)>>
    /\ eTask[1].up = ReturnedNull
    /\ eTask[1].idx = 0

\* the position of candidate c in list cands from position from on (0: none)
PositionOf(cands, c, from) ==
    IF \E a \in from..Len(cands) : cands[a] = c
    THEN CHOOSE a \in from..Len(cands) :
            cands[a] = c /\ \A b \in from..(a - 1) : cands[b] # c
    ELSE 0

\* the tier candidate of width Tiers[k] for an original of size w x h
TierOf(k, w, h, prefix) == Sized(Tiers[k], Round(Tiers[k] * h, w), prefix)

\* the tier part of a candidate list: what follows the removal of the token
AfterRemove(cands) == PositionOf(cands, Remove, 1) + 1

\* C28: once tryUpgradeSize has built its candidates, every tier wider than
\* the original width (1440, then 1200) is among them with the prefix s and
\* with the prefix p, whichever prefix the original token had, and the
\* candidates of 1440 come before those of 1200.
C28_TiersWithBothPrefixes ==
    \A i \in 1..Len(eTask) :
        eTask[i].cands # <<>> =>
            LET cands == eTask[i].cands
                orig  == OrigSize(eTask[i].cur)
                at(k, prefix) ==
                    PositionOf(cands, TierOf(k, orig.w, orig.h, prefix), AfterRemove(cands))
            IN  /\ \A k \in 1..Len(Tiers) :
                      Tiers[k] > orig.w => (at(k, "s") # 0 /\ at(k, "p") # 0)
                /\ \A k \in 1..Len(Tiers) : \A l \in (k + 1)..Len(Tiers) :
                      Tiers[l] > orig.w =>
                          /\ at(k, "s") < at(l, "s")
                          /\ at(k, "s") < at(l, "p")

\* the size of item i before the fallback of media.ts 31-37: what the final
\* probe read, else what the item arrived with
BeforeFallback(i) ==
    IF eTask[i].dims # NoDims THEN eTask[i].dims
    ELSE Dims(eIn[i].width, eIn[i].height)

\* C29: once an item (image or video) is past the fallback, then: if its
\* width or height was still 0 and its url has a size-constraint token, its
\* width and height are that token's; in every other case, and always when
\* both were known, they are what they were before the fallback.
C29_TokenFallback ==
    \A i \in 1..Len(eTask) :
        eTask[i].pc \in {"size", "done"} =>
            LET before == BeforeFallback(i)
                after  == Dims(eItems[i].width, eItems[i].height)
                stp    == eItems[i].url.stp
                known  == before.w # 0 /\ before.h # 0
                token  == eItems[i].url.ok /\ \E k \in 1..Len(stp) : IsSizeToken(stp[k])
            IN  /\ known => after = before
                /\ (~known /\ ~token) => after = before
                /\ (~known /\ token) =>
                      \E k \in 1..Len(stp) :
                          /\ IsSizeToken(stp[k])
                          /\ \A j \in 1..(k - 1) : ~IsSizeToken(stp[j])
                          /\ after = Dims(stp[k].w, stp[k].h)

\* a video that arrived with a width but no height got both from its token
C29_Witness ==
    /\ ePc = "done"
    /\ Len(eIn) = 1
    /\ eIn[1].type = "video"
    /\ eIn[1].width = 640
    /\ eIn[1].height = 0
    /\ eItems[1].width = 720
    /\ eItems[1].height = 1280

\* a raw candidate's URL, width and height under either field name
UrlOf(c) == IF "src" \in c.has THEN c.src ELSE IF "url" \in c.has THEN c.url ELSE ""
WidthOf(c) ==
    IF "width" \in c.has THEN c.width
    ELSE IF "config_width" \in c.has THEN c.config_width ELSE 0
HeightOf(c) ==
    IF "height" \in c.has THEN c.height
    ELSE IF "config_height" \in c.has THEN c.config_height ELSE 0
AreaOf(c) == WidthOf(c) * HeightOf(c)

\* the positions of the candidates of a raw list that have a URL
Usable(list) == {i \in 1..Len(list) : UrlOf(list[i]) # ""}

\* C30: for a leaf whose candidate list has a candidate with a URL, the
\* item's thumbnail is the URL of a usable candidate of least area; an image
\* item's url, width and height are those of a usable candidate of greatest
\* area; a video item's url is that of a usable video candidate of greatest
\* area when there is one. The field names of the candidates do not matter
\* and candidates without a URL take no part.
C30_LargestAndSmallest ==
    (shapePc = "extracted" /\ shapeIn.kind = "leaf") =>
        LET images == FirstList(shapeIn.display_resources, shapeIn.display_candidates,
                                shapeIn.image_versions2)
            videos == FirstList(shapeIn.video_resources, shapeIn.video_versions, NotArray)
            largest(list, i)  == \A j \in Usable(list) : AreaOf(list[i]) >= AreaOf(list[j])
            smallest(list, i) == \A j \in Usable(list) : AreaOf(list[i]) <= AreaOf(list[j])
        IN  /\ \A n \in 1..Len(shapeOut.items) :
                  LET item == shapeOut.items[n] IN
                  /\ Usable(images) # {} =>
                        \E i \in Usable(images) :
                            smallest(images, i) /\ item.thumbnail = UrlOf(images[i])
                  /\ (Usable(images) # {} /\ item.type = "image") =>
                        \E i \in Usable(images) :
                            /\ largest(images, i)
                            /\ item.url = UrlOf(images[i])
                            /\ item.width = WidthOf(images[i])
                            /\ item.height = HeightOf(images[i])
                  /\ (Usable(videos) # {} /\ item.type = "video") =>
                        \E i \in Usable(videos) :
                            largest(videos, i) /\ item.url = UrlOf(videos[i])
            /\ (Usable(images) # {} /\ ~HasVideoSignal(shapeIn)) => Len(shapeOut.items) = 1

\* an image leaf whose candidates name their fields differently, the first
\* without a URL and the largest last: the largest became the asset and the
\* smallest the thumbnail
C30_Witness ==
    /\ shapePc = "extracted"
    /\ shapeIn.kind = "leaf"
    /\ shapeIn.display_resources = Array(<<CandNull, CandA, CandB>>)
    /\ shapeOut.items = <<MediaItem("image", "b.jpg", "a.jpg", 1080, 1350)>>

\* the number of video signals a leaf carries
SignalCount(leaf) ==
    (IF leaf.is_video THEN 1 ELSE 0)
    + (IF leaf.typename = "GraphVideo" THEN 1 ELSE 0)
    + (IF leaf.media_type = 2 THEN 1 ELSE 0)

\* C31: every item made of a leaf has type video exactly when the leaf
\* carries at least one of the three video signals (is_video, __typename
\* GraphVideo, media_type 2), and type image otherwise; for a carousel this
\* holds item by item, in child order.
C31_VideoIffSignal ==
    (shapePc = "extracted" /\ ~shapeOut.raised) =>
        LET leaves == SelectSeq(LeavesOf(shapeIn), LAMBDA leaf : extractLeaf(leaf) # <<>>)
        IN  /\ Len(shapeOut.items) = Len(leaves)
            /\ \A n \in 1..Len(shapeOut.items) :
                  /\ shapeOut.items[n].type \in {"image", "video"}
                  /\ shapeOut.items[n].type = "video" <=> SignalCount(leaves[n]) >= 1

\* a leaf whose only video signal is media_type 2 gave a video item
C31_Witness ==
    /\ shapePc = "extracted"
    /\ shapeIn.kind = "leaf"
    /\ ~shapeIn.is_video
    /\ shapeIn.typename = "GraphImage"
    /\ shapeIn.media_type = 2
    /\ Len(shapeOut.items) = 1
    /\ shapeOut.items[1].type = "video"

\* the lexical state before each character from index start on: inside a
\* string or not, and whether the character is escaped
LexBefore(source, start) ==
    LET lex[k \in start..Len(source)] ==
            IF k = start THEN [inString |-> FALSE, escaped |-> FALSE]
            ELSE LET prev == lex[k - 1]
                     char == source[k]    \* the character at 0-based index k - 1
                 IN  IF ~prev.inString
                     THEN [inString |-> char = Quote, escaped |-> FALSE]
                     ELSE IF prev.escaped THEN [inString |-> TRUE, escaped |-> FALSE]
                     ELSE IF char = Backslash THEN [inString |-> TRUE, escaped |-> TRUE]
                     ELSE [inString |-> char # Quote, escaped |-> FALSE]
    IN  lex

\* the 0-based indexes from start to k whose character is c outside strings
Structural(source, start, k, c) ==
    {j \in start..k : source[j + 1] = c /\ ~LexBefore(source, start)[j].inString}

\* the nesting depth after the character at index k
DepthAfter(source, start, k, open, close) ==
    Cardinality(Structural(source, start, k, open))
        - Cardinality(Structural(source, start, k, close))

\* the indexes at which the delimiter opened at start is closed
Closers(source, start) ==
    LET open  == source[start + 1]
        close == IF open = "[" THEN "]" ELSE "}"
    IN  {k \in start..(Len(source) - 1) :
            /\ ~LexBefore(source, start)[k].inString
            /\ source[k + 1] = close
            /\ DepthAfter(source, start, k, open, close) = 0}

\* C32: extractBalancedJson returns null for a negative start index; started
\* at a "{" or "[", it returns the text from there through the first closing
\* delimiter of the same kind that brings the nesting depth back to 0,
\* delimiters inside double-quoted strings (with backslash escapes) not
\* counting, and null when there is no such delimiter. Every call returns.
C32_BalancedJson ==
    shapePc = "scanned" =>
        LET source == shapeIn.source
            start  == shapeIn.startIndex
        IN  /\ shapeOut = NoText \/ (shapeOut.found /\ Len(shapeOut.text) <= Len(source))
            /\ start < 0 => shapeOut = NoText
            /\ CharAt(source, start) \in {"{", "["} =>
                  IF Closers(source, start) = {} THEN shapeOut = NoText
                  ELSE \E k \in Closers(source, start) :
                          /\ \A j \in Closers(source, start) : k <= j
                          /\ shapeOut = Text(SubSeq(source, start + 1, k + 1))

\* an object holding a string with a closing brace in it was cut whole
C32_Witness ==
    /\ shapePc = "scanned"
    /\ shapeIn = [source |-> <<"{", Quote, "}", Quote, "}">>, startIndex |-> 0]
    /\ shapeOut = Text(<<"{", Quote, "}", Quote, "}">>)

\* the meta-tag fallback has run: its image awaits the legacy hop, its item
\* won, or it found nothing and the call ended with "No media found"
MetaFallbackRan ==
    \/ pc = "s4_wait"
    \/ winner = 4
    \/ (pc = "done" /\ outcome.kind = "Error" /\ outcome.message = NoMediaMessage)

\* C33: once the meta-tag fallback has run, the post page has been requested
\* exactly once (by strategy 2, whose HTML the fallback reads), and the
\* fallback's yield is one video item when that HTML has a video tag, else
\* one image item when it has an image tag, else nothing.
C33_MetaFallback ==
    MetaFallbackRan =>
        /\ Cardinality({i \in 1..Len(reqLog) : reqLog[i].url = norm.url}) = 1
        /\ \A i \in 1..Len(reqLog) : reqLog[i].url = norm.url => reqLog[i].strategy = 2
        /\ Len(yield[4]) <= 1
        /\ html.ogVideo =>
              (Len(yield[4]) = 1 /\ yield[4][1].type = "video" /\ yield[4][1].url = OgVideoUrl)
        /\ (~html.ogVideo /\ html.ogImage) =>
              (Len(yield[4]) = 1 /\ yield[4][1].type = "image")
        /\ (~html.ogVideo /\ ~html.ogImage) => yield[4] = <<>>

\* a page with both tags and no embedded JSON gave the call its video item
C33_Witness ==
    /\ pc = "done"
    /\ winner = 4
    /\ html.ogVideo
    /\ html.ogImage
    /\ Len(items) = 1
    /\ items[1].type = "video"
    /\ items[1].thumbnail = OgImageUrl

\* C34: enrichMediaItems is called at most once per call of fetchPostMedia;
\* while the call is under way and when it fails it has not been called; when
\* the call returns it has been called exactly once, on the items of the
\* winning strategy (all enriched, none added or dropped), and every strategy
\* tried before the winner yielded nothing.
C34_EnrichOncePerSuccess ==
    /\ enrichCalls \in {0, 1}
    /\ pc # "done" => enrichCalls = 0
    /\ (pc = "done" /\ outcome # Returned) => enrichCalls = 0
    /\ (pc = "done" /\ outcome = Returned) =>
          /\ enrichCalls = 1
          /\ winner \in Strategies
          /\ Len(items) = Len(yield[winner])
          /\ \A i \in 1..Len(items) :
                items[i] = [yield[winner][i] EXCEPT !.enriched = TRUE]
          /\ \A k \in 1..(winner - 1) : yield[k] = <<>>

\* strategy 3 won after strategies 1 and 2 yielded nothing: one enrichment
C34_Witness ==
    /\ pc = "done"
    /\ outcome = Returned
    /\ winner = 3
    /\ enrichCalls = 1
    /\ Len(items) >= 2
    /\ \A i \in 1..Len(items) : items[i].enriched

\* what each strategy appends to the post's path, and its query string
PathSuffix(k) == <<<<>>, <<>>, <<"embed", "/">>, <<"media", "/">>>>[k]
QueryOf(k) == <<<<"__a=1&__d=dis">>, <<>>, <<>>, <<"size=l">>>>[k]

\* C35: every request the cascade has issued, read back as a URL, has scheme
\* https, host www.instagram.com, the path /<type>/<shortcode>/ of the post
\* type and shortcode matched in the caller's URL followed by the strategy's
\* own suffix, and the strategy's own query string: nothing of the caller's
\* host, extra path or query string is in it.
C35_RequestsToCanonicalHost ==
    \A i \in 1..Len(reqLog) :
        LET sent  == ParseUrl(reqLog[i].url)
            given == ParseUrl(trim(postUrl))
            match == PostPathMatch(given.pathname)
        IN  /\ sent.ok
            /\ sent.protocol = "https:"
            /\ sent.hostname = <<"www", ".", "instagram", ".", "com">>
            /\ match.ok
            /\ match.type \in {"p", "reel", "tv"}
            /\ sent.pathname = <<"/", match.type, "/", match.shortcode, "/">>
                                   \o PathSuffix(reqLog[i].strategy)
            /\ sent.search = QueryOf(reqLog[i].strategy)

\* a reel given over http on instagram.com with a tracking query: all four
\* requests went out, the last to the legacy media path
C35_Witness ==
    /\ Len(postUrl) > 2
    /\ postUrl[2] = "http:"
    /\ Len(reqLog) = 4
    /\ reqLog[4].url = <<"https:", "//", "www", ".", "instagram", ".", "com",
                         "/", "reel", "/", "x_Y-9", "/", "media", "/", "?", "size=l">>

\* two media URLs that differ at most in their stp parameter
SameButStp(a, b) ==
    /\ a.ok = b.ok
    /\ a.host = b.host
    /\ a.path = b.path
    /\ a.efg = b.efg

\* the text of a URL up to its query string
BeforeQuery(href) ==
    IF \E i \in 1..Len(href) : href[i] = "?"
    THEN SubSeq(href, 1, (CHOOSE i \in 1..Len(href) : href[i] = "?") - 1)
    ELSE href

\* C36: every candidate URL tryUpgradeSize builds (looked at when its first
\* probe goes out), and every HEAD or ranged GET it has in flight, has the
\* scheme, host, path and efg parameter of the URL it was given; only stp
\* differs, and the tokens of stp other than the size token are kept in place.
C36_OnlyStpDiffers ==
    \A i \in 1..Len(eTask) :
        LET t == eTask[i] IN
        /\ (t.pc = "head" /\ t.idx = 1) =>
              \A k \in 1..Len(t.cands) :
                  LET built == buildCandidateUrl(t.cur, t.cands[k]) IN
                  /\ SameButStp(built, t.cur)
                  /\ SelectSeq(built.stp, LAMBDA token : ~IsSizeToken(token))
                        = SelectSeq(t.cur.stp, LAMBDA token : ~IsSizeToken(token))
        /\ t.pc \in {"head", "get"} =>
              /\ t.req.url = buildCandidateUrl(t.cur, t.cands[t.idx])
              /\ SameButStp(t.req.url, t.cur)
              /\ BeforeQuery(Href(t.req.url)) = BeforeQuery(Href(t.cur))

\* the size token of a URL with a flag token and an efg tag was replaced in
\* a probe that followed the first candidate
C36_Witness ==
    \E i \in 1..Len(eTask) :
        /\ eTask[i].pc = "head"
        /\ eTask[i].idx >= 2
        /\ eTask[i].cur.efg # NoDims
        /\ eTask[i].cands[eTask[i].idx].kind = "size"
        /\ eTask[i].req.url.stp # eTask[i].cur.stp
        /\ eTask[i].req.url.stp[1] = FlagToken
        /\ eTask[i].req.url.efg = eTask[i].cur.efg

\* C37: at every moment of a call of enrichMediaItems the list has the items
\* it was given, in their order and with their types; a video item still has
\* the url and the thumbnail it came with, so only width, height and filesize
\* of a video can differ from what was passed in.
C37_FrameOfEnrichment ==
    ePc # "idle" =>
        /\ Len(eItems) = Len(eIn)
        /\ \A i \in 1..Len(eIn) :
              /\ eItems[i].type = eIn[i].type
              /\ eIn[i].type = "video" =>
                    /\ eItems[i].url = eIn[i].url
                    /\ eItems[i].thumbnail = eIn[i].thumbnail
                    /\ eItems[i] = [eIn[i] EXCEPT !.width = eItems[i].width,
                                                  !.height = eItems[i].height,
                                                  !.filesize = eItems[i].filesize]

\* an image and a video were enriched together: the image's url was
\* replaced, the video kept its url and got its file size
C37_Witness ==
    /\ ePc = "done"
    /\ Len(eIn) = 2
    /\ eIn[1].type = "image"
    /\ eItems[1].url # eIn[1].url
    /\ eIn[2].type = "video"
    /\ eItems[2].url = eIn[2].url
    /\ eItems[2].filesize # 0

\* C38: in the page component, whenever status is ready the items list is
\* not empty, whatever the order of the handlers and of the responses.
C38_ReadyHasItems == uiStatus = "ready" => uiItems.count > 0

\* the preview requests awaiting their response
PreviewsInFlight == {req \in uiPending : req.kind = "preview"}

\* C39: at most one /api/preview request of the page is in flight at any
\* time, and while one is in flight the status, items and meta are still
\* those its submission set (fetching, no items, no meta): no other response
\* has written over them.
C39_OnePreviewInFlight ==
    /\ Cardinality(PreviewsInFlight) <= 1
    /\ PreviewsInFlight # {} =>
          (uiStatus = "fetching" /\ uiItems = NoItems /\ uiMeta = 0)

====
